---- MODULE Spec2Model ----
(***************************************************************************)
(* A model of the decision-and-sampling engine of llm_mad: the review      *)
(* selectors (reviews.py), the bandit policies (models/) and the           *)
(* experiment orchestrators (simulation.py).                               *)
(***************************************************************************)
EXTENDS Integers, Sequences, FiniteSets, TLC

\* ------------------------------------------------------------------ bounds
\* Number of review rows of restaurant "A" in the plain selector's data
\* (restaurant "B" has one row, restaurant "C" none).
MaxRecords == 3

\* Number of review rows of restaurant "A" in the synchronized selector's
\* data (its other restaurant, "C", has none).
SyncRecords == 2

\* The timesteps passed to the synchronized selector are 0..MaxTimestep.
MaxTimestep == 1

\* Scores passed to a score-based policy are 1..MaxScore.
MaxScore == 2

\* Number of update calls made on one policy object.
MaxUpdates == 3

\* The num_steps of an experiment.
NumSteps == 2

\* --------------------------------------------------------------- utilities
Range(s) == {s[i] : i \in DOMAIN s}

Min(a, b) == IF a <= b THEN a ELSE b

NoDup(s) == \A i, j \in DOMAIN s : i # j => s[i] # s[j]

\* The sequence lo, lo+1, ..., hi (Index.tolist() of a contiguous group).
Interval(lo, hi) == [i \in 1..(hi - lo + 1) |-> lo + i - 1]

\* ------------------------------------------------------------ review data
\* A restaurant name no selector is configured with.
UnknownRestaurant == "Z"

\* Python's None as a restaurant and as a timestep argument, and the review
\* of a call that returned nothing.
None == "None"
NoTimestep == 0 - 1
NoReview == 0

Timesteps == 0..MaxTimestep

\* The "Rating" column of row i of the DataFrame (a 1..5 star rating).
Rating(i) == ((i - 1) % 5) + 1

VARIABLES
  restaurants,        \* ReviewSelector._restaurants
  review_indices,     \* ReviewSelector._review_indices
  shuffled_indices,   \* ReviewSelector._shuffled_indices
  timestep_cache,     \* SynchronizedReviewSelector._timestep_cache
  current_timestep,   \* SynchronizedReviewSelector._current_timestep
  last,               \* the last call made on the selector and its outcome
  epoch,              \* per restaurant: what the current epoch has dispensed
  resolved,           \* per (timestep, restaurant): the review first returned
  alg,                \* the policy object (a BanditAlgorithm)
  selects,            \* the results of the first |restaurants| select calls
  lastSel,            \* the result of the last select call, if no update followed
  passed,             \* per restaurant: what an EpsilonGreedy's updates were given
  exp                 \* the locals of the running experiment function

selectorVars ==
  <<restaurants, review_indices, shuffled_indices, timestep_cache, current_timestep>>

policyVars == <<alg, selects, lastSel, passed>>

vars ==
  <<restaurants, review_indices, shuffled_indices, timestep_cache,
    current_timestep, last, epoch, resolved, alg, selects, lastSel, passed, exp>>

\* A dict without its key k, and with k bound to v.
Without(d, k) == [x \in DOMAIN d \ {k} |-> d[x]]
With(d, k, v) == [x \in DOMAIN d \cup {k} |-> IF x = k THEN v ELSE d[x]]
EmptyDict == [x \in {} |-> 0]

\* ------------------------------------------------- ReviewSelector (reviews.py)
\* _build_indices on a DataFrame whose rows 1..a belong to "A" and rows
\* a+1..a+b to "B": only restaurants with at least one row get a key.
build_indices(a, b) ==
  [r \in (IF a > 0 THEN {"A"} ELSE {}) \cup (IF b > 0 THEN {"B"} ELSE {}) |->
     IF r = "A" THEN Interval(1, a) ELSE Interval(a + 1, a + b)]

\* A faulty shuffle that draws with replacement (random.choices).
shuffle_mutant_with_replacement(indices) == [DOMAIN indices -> Range(indices)]

\* random.shuffle(indices): any permutation of the list.
shuffle(indices) ==
  {p \in [DOMAIN indices -> Range(indices)] : Range(p) = Range(indices)}

\* A faulty pop that reads the last element and leaves it in the list.
pop_mutant_keeps(l) == [item |-> l[Len(l)], rest |-> l]

\* list.pop(): the last element is returned and removed.
pop(l) == [item |-> l[Len(l)], rest |-> SubSeq(l, 1, Len(l) - 1)]

\* A faulty get_random_review without the test of the restaurant's name: an
\* unknown name is reported as a restaurant without reviews.
get_random_review_mutant_no_name_test(sh, restaurant) ==
  IF restaurant \notin DOMAIN review_indices
  THEN {[exc |-> "IndexError", review |-> NoReview, shuffled |-> sh]}
  ELSE LET lists == IF restaurant \notin DOMAIN sh
                    THEN shuffle(review_indices[restaurant])
                    ELSE {sh[restaurant]}
       IN {IF l = <<>>
           THEN [exc |-> "IndexError", review |-> NoReview,
                 shuffled |-> With(sh, restaurant, l)]
           ELSE [exc |-> "ok", review |-> pop(l).item,
                 shuffled |-> With(sh, restaurant, pop(l).rest)]
           : l \in lists}

\* get_random_review(restaurant) on the pools sh: the set of possible
\* outcomes [exc, review, shuffled].
get_random_review(sh, restaurant) ==
  IF restaurant \notin restaurants
  THEN {[exc |-> "ValueError", review |-> NoReview, shuffled |-> sh]}
  ELSE IF restaurant \notin DOMAIN review_indices
  THEN {[exc |-> "IndexError", review |-> NoReview, shuffled |-> sh]}
  ELSE LET lists == IF restaurant \notin DOMAIN sh
                    THEN shuffle(review_indices[restaurant])
                    ELSE {sh[restaurant]}
       IN {IF l = <<>>
           THEN [exc |-> "IndexError", review |-> NoReview,
                 shuffled |-> With(sh, restaurant, l)]
           ELSE [exc |-> "ok", review |-> pop(l).item,
                 shuffled |-> With(sh, restaurant, pop(l).rest)]
           : l \in lists}

\* A faulty reset that keeps the working list.
reset_mutant_noop(sh, restaurant) ==
  IF restaurant \notin restaurants
  THEN [exc |-> "ValueError", shuffled |-> sh]
  ELSE [exc |-> "ok", shuffled |-> sh]

\* reset(restaurant): the outcome [exc, shuffled].
reset(sh, restaurant) ==
  IF restaurant \notin restaurants
  THEN [exc |-> "ValueError", shuffled |-> sh]
  ELSE [exc |-> "ok", shuffled |-> Without(sh, restaurant)]

\* A faulty reset_all that leaves the working lists as they are.
selector_reset_all_mutant_noop(sh) == sh

\* ReviewSelector.reset_all(): _shuffled_indices.clear().
selector_reset_all(sh) == EmptyDict

\* ------------------------------------- SynchronizedReviewSelector (reviews.py)
\* A faulty miss without the except clause: exhaustion goes to the caller.
draw_with_retry_mutant_no_retry(sh, restaurant) == get_random_review(sh, restaurant)

\* The part of get_synchronized_review after a cache miss: one review from
\* the pool, with a reset and one retry when the pool is exhausted.
\* Outcomes [exc, review, shuffled].
draw_with_retry(sh, restaurant) ==
  UNION {IF o.exc = "IndexError"
         THEN get_random_review(reset(o.shuffled, restaurant).shuffled, restaurant)
         ELSE {o}
         : o \in get_random_review(sh, restaurant)}

\* A faulty lookup that never finds the key.
cache_hit_mutant_never(cache, key) == FALSE

\* The lookup of the cache: is the key resolved?
cache_hit(cache, key) == key \in DOMAIN cache

\* A faulty answer from the cache that also spends a row of the pool.
return_cached_mutant_draws(sh, cache, cache_key) ==
  {[exc |-> "ok", review |-> cache[cache_key], timestep |-> cache_key[1],
    shuffled |-> o.shuffled, cache |-> cache]
   : o \in draw_with_retry(sh, cache_key[2])}

\* The early return of get_synchronized_review on a resolved key: the
\* cached row, and nothing else touched.
return_cached(sh, cache, cache_key) ==
  {[exc |-> "ok", review |-> cache[cache_key], timestep |-> cache_key[1],
    shuffled |-> sh, cache |-> cache]}

\* get_synchronized_review(restaurant, timestep): the set of possible
\* outcomes [exc, review, timestep, shuffled, cache]; timestep is the one
\* the call resolved to.
get_synchronized_review(sh, cache, cur, restaurant, timestep) ==
  LET t == IF timestep = NoTimestep THEN cur ELSE timestep
      cache_key == <<t, restaurant>>
  IN IF cache_hit(cache, cache_key)
     THEN return_cached(sh, cache, cache_key)
     ELSE {[exc |-> o.exc, review |-> o.review, timestep |-> t,
            shuffled |-> o.shuffled,
            cache |-> IF o.exc = "ok" THEN With(cache, cache_key, o.review)
                      ELSE cache]
           : o \in draw_with_retry(sh, restaurant)}

\* reset_synchronization(): the outcome [cache, timestep].
reset_synchronization == [cache |-> EmptyDict, timestep |-> 0]

\* SynchronizedReviewSelector.reset_all(): the pools, then the cache.
sync_reset_all(sh) ==
  [shuffled |-> selector_reset_all(sh),
   cache |-> reset_synchronization.cache,
   timestep |-> reset_synchronization.timestep]

\* --------------------------------------------------- bookkeeping of epochs
\* What restaurant r still has to dispense in the pools sh: the working
\* list, or the whole pool when no working list exists yet.
Remaining(sh, r) ==
  IF r \notin DOMAIN review_indices THEN {}
  ELSE IF r \notin DOMAIN sh THEN Range(review_indices[r])
  ELSE Range(sh[r])

PoolOf(r) == IF r \in DOMAIN review_indices THEN Range(review_indices[r]) ELSE {}

PoolSize(r) == IF r \in DOMAIN review_indices THEN Len(review_indices[r]) ELSE 0

FreshEpoch(kind, resets) == [log |-> <<>>, calls |-> 0, kind |-> kind, resets |-> resets]

\* The epoch record of r after a get_random_review(r) call with outcome o.
EpochAfterCall(e, r, o) ==
  [e EXCEPT !.log = IF o.exc = "ok" THEN Append(@, o.review) ELSE @,
            !.calls = Min(@ + 1, PoolSize(r) + 1)]

\* The epoch record of r after reset(r) in a state where e was current.
EpochAfterReset(e, r) ==
  FreshEpoch(IF Len(e.log) = 0 THEN "reset_full"
             ELSE IF Len(e.log) < PoolSize(r) THEN "reset_partial"
             ELSE "reset_exhausted",
             Min(e.resets + 1, 2))

Call(op, r, t, exc, review) ==
  [op |-> op, restaurant |-> r, timestep |-> t, exc |-> exc, review |-> review]

NoCall == Call("none", None, NoTimestep, "ok", NoReview)

\* No policy object takes part.
NoPolicy == [cls |-> "none"]
NoSelect == [exc |-> "none", choice |-> None, mode |-> "none"]

IdlePolicy ==
  /\ alg = NoPolicy
  /\ selects = <<>>
  /\ lastSel = NoSelect
  /\ passed = EmptyDict

\* No experiment function is running.
NoExperiment == [pc |-> "none"]

\* No selector takes part.
IdleSelector ==
  /\ restaurants = {}
  /\ review_indices = EmptyDict
  /\ shuffled_indices = EmptyDict
  /\ timestep_cache = EmptyDict
  /\ current_timestep = 0
  /\ last = NoCall
  /\ epoch = EmptyDict
  /\ resolved = EmptyDict

\* ------------------------------------------------ the plain selector's life
InitPool ==
  /\ restaurants = {"A", "B", "C"}
  /\ review_indices = build_indices(MaxRecords, 1)
  /\ shuffled_indices = EmptyDict
  /\ timestep_cache = EmptyDict
  /\ current_timestep = 0
  /\ last = NoCall
  /\ epoch = [r \in restaurants |-> FreshEpoch("initial", 0)]
  /\ resolved = EmptyDict
  /\ IdlePolicy
  /\ exp = NoExperiment

PoolGetRandomReview(r) ==
  \E o \in get_random_review(shuffled_indices, r) :
    /\ shuffled_indices' = o.shuffled
    /\ last' = Call("get_random_review", r, NoTimestep, o.exc, o.review)
    /\ epoch' = IF r \in restaurants
                THEN [epoch EXCEPT ![r] = EpochAfterCall(@, r, o)]
                ELSE epoch
    /\ UNCHANGED <<restaurants, review_indices, timestep_cache, current_timestep,
                   resolved, policyVars, exp>>

PoolReset(r) ==
  LET o == reset(shuffled_indices, r) IN
    /\ shuffled_indices' = o.shuffled
    /\ last' = Call("reset", r, NoTimestep, o.exc, NoReview)
    /\ epoch' = IF r \in restaurants
                THEN [epoch EXCEPT ![r] = EpochAfterReset(@, r)]
                ELSE epoch
    /\ UNCHANGED <<restaurants, review_indices, timestep_cache, current_timestep,
                   resolved, policyVars, exp>>

PoolResetAll ==
  /\ shuffled_indices' = selector_reset_all(shuffled_indices)
  /\ last' = Call("reset_all", None, NoTimestep, "ok", NoReview)
  /\ epoch' = [r \in restaurants |-> EpochAfterReset(epoch[r], r)]
  /\ UNCHANGED <<restaurants, review_indices, timestep_cache, current_timestep,
                 resolved, policyVars, exp>>

NextPool ==
  \/ \E r \in restaurants \cup {UnknownRestaurant} : PoolGetRandomReview(r)
  \/ \E r \in restaurants \cup {UnknownRestaurant} : PoolReset(r)
  \/ PoolResetAll

SpecPool == InitPool /\ [][NextPool]_vars

\* C3: in every epoch of a restaurant with k rows, the first k calls of
\* get_random_review each return a row, no row is returned twice, after k
\* calls every row has been returned, and a call after the k-th fails with
\* IndexError (exhaustion) and returns nothing.
C3_EpochDispensesEachRowOnce ==
  \A r \in restaurants :
    LET e == epoch[r]
        k == PoolSize(r)
    IN /\ NoDup(e.log)
       /\ Range(e.log) \subseteq PoolOf(r)
       /\ e.calls <= k => Len(e.log) = e.calls
       /\ e.calls >= k => Range(e.log) = PoolOf(r)
       /\ (e.calls = k + 1 /\ last.op = "get_random_review" /\ last.restaurant = r)
            => (last.exc = "IndexError" /\ last.review = NoReview)

\* C3 witness: restaurant "A", never reset, has dispensed all its rows and
\* the next call has just failed.
C3_Witness ==
  /\ epoch["A"].kind = "initial"
  /\ PoolSize("A") >= 2
  /\ Len(epoch["A"].log) = PoolSize("A")
  /\ epoch["A"].calls = PoolSize("A") + 1
  /\ last = Call("get_random_review", "A", NoTimestep, "IndexError", NoReview)

\* C4: in every epoch started by reset(r) or reset_all, whatever the pool
\* held at the time of the reset (full, partly dispensed or exhausted) and
\* however many resets came before, the next |rows of r| calls return each
\* row of r exactly once.
C4_ResetStartsFullEpoch ==
  \A r \in restaurants :
    LET e == epoch[r]
        k == PoolSize(r)
    IN e.kind \in {"reset_full", "reset_partial", "reset_exhausted"} =>
         /\ e.resets >= 1
         /\ Len(e.log) = Min(e.calls, k)
         /\ Cardinality(Range(e.log)) = Len(e.log)
         /\ Len(e.log) = k => Range(e.log) = PoolOf(r)

\* C4 witness: "A" was reset in mid-epoch, for at least the second time, and
\* "B" was reset when exhausted; both have since dispensed every row again.
C4_Witness ==
  /\ epoch["A"].kind = "reset_partial"
  /\ epoch["A"].resets = 2
  /\ Range(epoch["A"].log) = PoolOf("A")
  /\ epoch["B"].kind = "reset_exhausted"
  /\ Range(epoch["B"].log) = PoolOf("B")

\* C5: for every restaurant, the rows dispensed in the current epoch and the
\* rows remaining in its working list partition its rows; a working list
\* holds only rows of its own restaurant, and none twice.
C5_PoolInvariant ==
  \A r \in restaurants :
    /\ Range(epoch[r].log) \cap Remaining(shuffled_indices, r) = {}
    /\ Range(epoch[r].log) \cup Remaining(shuffled_indices, r) = PoolOf(r)
    /\ r \in DOMAIN shuffled_indices =>
         /\ Range(shuffled_indices[r]) \subseteq PoolOf(r)
         /\ NoDup(shuffled_indices[r])
         /\ \A q \in restaurants \ {r} : Range(shuffled_indices[r]) \cap PoolOf(q) = {}

\* C5 witness: after a reset, "A" is in mid-epoch while "B" is exhausted.
C5_Witness ==
  /\ epoch["A"].resets >= 1
  /\ Len(epoch["A"].log) > 0
  /\ Remaining(shuffled_indices, "A") # {}
  /\ "B" \in DOMAIN shuffled_indices
  /\ shuffled_indices["B"] = <<>>

\* --------------------------------------- the synchronized selector's life
InitSel ==
  /\ restaurants = {"A", "C"}
  /\ review_indices = build_indices(SyncRecords, 0)
  /\ shuffled_indices = EmptyDict
  /\ timestep_cache = EmptyDict
  /\ current_timestep = 0
  /\ last = NoCall
  /\ epoch = [r \in restaurants |-> FreshEpoch("initial", 0)]
  /\ resolved = EmptyDict
  /\ IdlePolicy
  /\ exp = NoExperiment

SelGetRandomReview(r) ==
  \E o \in get_random_review(shuffled_indices, r) :
    /\ shuffled_indices' = o.shuffled
    /\ last' = Call("get_random_review", r, NoTimestep, o.exc, o.review)
    /\ UNCHANGED <<restaurants, review_indices, timestep_cache, current_timestep,
                   epoch, resolved, policyVars, exp>>

SelReset(r) ==
  LET o == reset(shuffled_indices, r) IN
    /\ shuffled_indices' = o.shuffled
    /\ last' = Call("reset", r, NoTimestep, o.exc, NoReview)
    /\ UNCHANGED <<restaurants, review_indices, timestep_cache, current_timestep,
                   epoch, resolved, policyVars, exp>>

SelSetTimestep(t) ==
  /\ current_timestep' = t
  /\ last' = Call("set_timestep", None, NoTimestep, "ok", NoReview)
  /\ UNCHANGED <<restaurants, review_indices, shuffled_indices, timestep_cache,
                 epoch, resolved, policyVars, exp>>

\* resolved remembers, for every key, the review of the first successful
\* call since the cache was last cleared.
SelGetSynchronizedReview(r, timestep) ==
  \E o \in get_synchronized_review(shuffled_indices, timestep_cache,
                                   current_timestep, r, timestep) :
    /\ shuffled_indices' = o.shuffled
    /\ timestep_cache' = o.cache
    /\ last' = Call("get_synchronized_review", r, o.timestep, o.exc, o.review)
    /\ resolved' = IF o.exc = "ok" /\ <<o.timestep, r>> \notin DOMAIN resolved
                   THEN With(resolved, <<o.timestep, r>>, o.review)
                   ELSE resolved
    /\ UNCHANGED <<restaurants, review_indices, current_timestep, epoch, policyVars, exp>>

SelResetSynchronization ==
  /\ timestep_cache' = reset_synchronization.cache
  /\ current_timestep' = reset_synchronization.timestep
  /\ resolved' = EmptyDict
  /\ last' = Call("reset_synchronization", None, NoTimestep, "ok", NoReview)
  /\ UNCHANGED <<restaurants, review_indices, shuffled_indices, epoch, policyVars, exp>>

SelResetAll ==
  LET o == sync_reset_all(shuffled_indices) IN
    /\ shuffled_indices' = o.shuffled
    /\ timestep_cache' = o.cache
    /\ current_timestep' = o.timestep
    /\ resolved' = EmptyDict
    /\ last' = Call("reset_all", None, NoTimestep, "ok", NoReview)
    /\ UNCHANGED <<restaurants, review_indices, epoch, policyVars, exp>>

NextSel ==
  \/ \E r \in restaurants \cup {UnknownRestaurant} : SelGetRandomReview(r)
  \/ \E r \in restaurants \cup {UnknownRestaurant} : SelReset(r)
  \/ \E t \in Timesteps : SelSetTimestep(t)
  \/ \E r \in restaurants \cup {UnknownRestaurant}, t \in Timesteps \cup {NoTimestep} :
       SelGetSynchronizedReview(r, t)
  \/ SelResetSynchronization
  \/ SelResetAll

SpecSel == InitSel /\ [][NextSel]_vars

\* C6: a (timestep, restaurant) pair that get_synchronized_review has
\* resolved stays cached with the review first returned for it, and every
\* later successful call for the pair returns that review, whatever calls
\* come in between, until reset_synchronization or reset_all.
C6_ResolvedPairIsStable ==
  /\ \A key \in DOMAIN resolved :
       key \in DOMAIN timestep_cache /\ timestep_cache[key] = resolved[key]
  /\ (last.op = "get_synchronized_review" /\ last.exc = "ok") =>
       /\ <<last.timestep, last.restaurant>> \in DOMAIN resolved
       /\ last.review = resolved[<<last.timestep, last.restaurant>>]

\* C6 witness: a call has just been answered from the cache although the
\* restaurant's pool was reset in between (a miss would have left a working
\* list behind) and the other timestep of the restaurant holds another row.
C6_Witness ==
  /\ last.op = "get_synchronized_review"
  /\ last.exc = "ok"
  /\ last.restaurant = "A"
  /\ "A" \notin DOMAIN shuffled_indices
  /\ \E t \in Timesteps :
       /\ <<t, "A">> \in DOMAIN timestep_cache
       /\ timestep_cache[<<t, "A">>] # last.review

\* C20: get_random_review, reset and get_synchronized_review called with a
\* name outside the selector's restaurants raise ValueError (never the
\* IndexError of an exhausted pool, which callers catch) and leave the
\* pools, the cache and the current timestep as they were.
C20_UnknownArmFailsCleanly ==
  [][last'.restaurant = UnknownRestaurant =>
       /\ last'.op \in {"get_random_review", "reset", "get_synchronized_review"}
       /\ last'.exc = "ValueError"
       /\ last'.review = NoReview
       /\ shuffled_indices' = shuffled_indices
       /\ timestep_cache' = timestep_cache
       /\ current_timestep' = current_timestep
       /\ review_indices' = review_indices]_vars

\* C20 witness: get_random_review has just failed for the unknown name
\* while a working list and a cache entry exist.
C20_Witness ==
  /\ last.op = "get_random_review"
  /\ last.restaurant = UnknownRestaurant
  /\ last.exc = "ValueError"
  /\ "A" \in DOMAIN shuffled_indices
  /\ shuffled_indices["A"] # <<>>
  /\ timestep_cache # EmptyDict

\* C26: a get_synchronized_review(r, t) that misses the cache takes one row
\* from the pool of r (the last of the working list, or of a fresh shuffle
\* of all rows of r when the list is missing or used up), caches it under
\* (t, r) and returns it, leaving the other pools alone; so it never fails
\* for a restaurant that has rows.  For one without rows it raises
\* IndexError and caches nothing.
C26_MissDrawsWithOneRetry ==
  [][LET r == last'.restaurant
         key == <<last'.timestep, r>>
     IN (last'.op = "get_synchronized_review" /\ r \in restaurants
           /\ key \notin DOMAIN timestep_cache) =>
          IF r \in DOMAIN review_indices
          THEN /\ last'.exc = "ok"
               /\ last'.review \in PoolOf(r)
               /\ timestep_cache' = With(timestep_cache, key, last'.review)
               /\ r \in DOMAIN shuffled_indices'
               /\ IF r \in DOMAIN shuffled_indices /\ shuffled_indices[r] # <<>>
                  THEN /\ last'.review = shuffled_indices[r][Len(shuffled_indices[r])]
                       /\ shuffled_indices'[r] =
                            SubSeq(shuffled_indices[r], 1, Len(shuffled_indices[r]) - 1)
                  ELSE /\ Range(shuffled_indices'[r]) = PoolOf(r) \ {last'.review}
                       /\ Len(shuffled_indices'[r]) = PoolSize(r) - 1
               /\ Without(shuffled_indices', r) = Without(shuffled_indices, r)
          ELSE /\ last'.exc = "IndexError"
               /\ timestep_cache' = timestep_cache]_vars

\* C26 witness: the same row of "A" is cached under both timesteps (the
\* pool was reshuffled in between), the last call was a
\* get_synchronized_review of "A" and one row has left the working list.
C26_Witness ==
  /\ last.op = "get_synchronized_review"
  /\ last.exc = "ok"
  /\ last.restaurant = "A"
  /\ <<0, "A">> \in DOMAIN timestep_cache
  /\ <<1, "A">> \in DOMAIN timestep_cache
  /\ timestep_cache[<<0, "A">>] = timestep_cache[<<1, "A">>]
  /\ "A" \in DOMAIN shuffled_indices
  /\ Len(shuffled_indices["A"]) = PoolSize("A") - 1

\* ------------------------------------------------------- the text oracle
\* ReviewClassifier.classify: "Good" or "Bad", or what it raises: the
\* RuntimeError of _call_api, the ValueError of an answer that is neither,
\* the AttributeError of _call_api on an answer whose content is no text.
classify == {"Good", "Bad", "RuntimeError", "ValueError", "AttributeError"}

\* The exceptions a call of the classifier or the quantifier ends in.
IsError(x) == x \in {"RuntimeError", "ValueError", "AttributeError"}

\* except (RuntimeError, ValueError): the exceptions the experiment
\* functions recover from.
Recovered(x) == x \in {"RuntimeError", "ValueError"}

\* ---------------------------------------------------- the bandit policies
\* Fractions n/d with d > 0 stand for the floats the policies compare.
Frac(n, d) == <<n, d>>
FracLess(a, b) == a[1] * b[2] < b[1] * a[2]
FracEq(a, b) == a[1] * b[2] = b[1] * a[2]

RECURSIVE Sum(_)
Sum(l) == IF l = <<>> THEN 0 ELSE Head(l) + Sum(Tail(l))

\* The default of the epsilon parameter (0.1), in percent.
DefaultEpsilon == 10

\* A policy object: its class, the attributes it has, and their values
\* (attributes the class does not have keep a placeholder).
Policy(cls, attrs, rs, clf, eps) ==
  [cls |-> cls,
   attrs |-> attrs,
   restaurants |-> rs,
   classifier |-> clf,
   epsilon |-> eps,
   counts |-> [r \in Range(rs) |-> [good |-> 0, bad |-> 0]],
   scores |-> [r \in Range(rs) |-> <<>>],
   averages |-> [r \in Range(rs) |-> Frac(0, 1)],
   initial_rounds_left |-> IF cls \in {"EpsilonGreedy", "ScoreEpsilonGreedy"}
                           THEN rs ELSE <<>>,
   last_choice |-> None,
   last_review_text |-> NoReview]

\* Every instance of these classes (none has __slots__) has a __dict__.
hasattr(a, name) == name = "__dict__" \/ name \in a.attrs

\* BanditAlgorithm.__init__ and the constructors of the four classes: the
\* outcome [exc, alg].  The classifier None is the falsy one.
Constructed(ok, a) == IF ok THEN [exc |-> "ok", alg |-> a]
                      ELSE [exc |-> "ValueError", alg |-> NoPolicy]

RandomChoice(rs) ==
  Constructed(rs # <<>>, Policy("RandomChoice", {"restaurants"}, rs, None, 0))

\* A faulty constructor that does not test the classifier.
FairweatherFriend_mutant_no_classifier_test(rs, clf) ==
  Constructed(rs # <<>>,
              Policy("FairweatherFriend",
                     {"restaurants", "_classifier", "_last_choice", "_last_review_text"},
                     rs, clf, 0))

FairweatherFriend(rs, clf) ==
  Constructed(rs # <<>> /\ clf # None,
              Policy("FairweatherFriend",
                     {"restaurants", "_classifier", "_last_choice", "_last_review_text"},
                     rs, clf, 0))

\* llm_mad.models.EpsilonGreedy, which learns from classifications.
EpsilonGreedy(rs, clf, eps) ==
  Constructed(rs # <<>> /\ 0 <= eps /\ eps <= 100 /\ clf # None,
              Policy("EpsilonGreedy",
                     {"restaurants", "epsilon", "_classifier", "counts",
                      "_initial_rounds_left"},
                     rs, clf, eps))

\* src.models.epsilon.EpsilonGreedy, which learns from scores.
ScoreEpsilonGreedy(rs, eps) ==
  Constructed(rs # <<>> /\ 0 <= eps /\ eps <= 100,
              Policy("ScoreEpsilonGreedy",
                     {"restaurants", "epsilon", "scores", "averages",
                      "_initial_rounds_left"},
                     rs, None, eps))

\* A faulty warm-up that pops from the end of the list (pop()).
pop_first_mutant_last(l) == [item |-> l[Len(l)], rest |-> SubSeq(l, 1, Len(l) - 1)]

\* self._initial_rounds_left.pop(0)
pop_first(l) == [item |-> Head(l), rest |-> Tail(l)]

\* random.random() < epsilon: the outcomes the draw allows.
explores(eps) == (IF eps > 0 THEN {TRUE} ELSE {}) \cup (IF eps < 100 THEN {FALSE} ELSE {})

\* The exploitation loop of both EpsilonGreedy classes over the restaurants
\* rs with values value[r], from position i on: the list best_restaurants.
RECURSIVE exploit_loop(_, _, _, _, _)
exploit_loop(rs, value, i, best_score, best) ==
  IF i > Len(rs) THEN best
  ELSE IF FracLess(best_score, value[rs[i]])
       THEN exploit_loop(rs, value, i + 1, value[rs[i]], <<rs[i]>>)
       ELSE IF FracEq(value[rs[i]], best_score)
            THEN exploit_loop(rs, value, i + 1, best_score, Append(best, rs[i]))
            ELSE exploit_loop(rs, value, i + 1, best_score, best)

\* The same loop without its elif branch: ties go to the first seen.
RECURSIVE exploit_loop_first_seen(_, _, _, _, _)
exploit_loop_first_seen(rs, value, i, best_score, best) ==
  IF i > Len(rs) THEN best
  ELSE IF FracLess(best_score, value[rs[i]])
       THEN exploit_loop_first_seen(rs, value, i + 1, value[rs[i]], <<rs[i]>>)
       ELSE exploit_loop_first_seen(rs, value, i + 1, best_score, best)

\* A faulty exploitation that keeps only the first restaurant of a tie.
score_best_mutant_first_seen(a) ==
  exploit_loop_first_seen(a.restaurants, a.averages, 1, Frac(0 - 1, 1), <<>>)

\* best_restaurants of the score-based class: highest average, from -1.0.
score_best_restaurants(a) ==
  exploit_loop(a.restaurants, a.averages, 1, Frac(0 - 1, 1), <<>>)

\* The proportion of "Good" the classification-based class gives r.
proportion(a, r) ==
  LET total == a.counts[r].good + a.counts[r].bad
  IN IF total = 0 THEN Frac(1, 1) ELSE Frac(a.counts[r].good, total)

class_best_restaurants(a) ==
  exploit_loop(a.restaurants, [r \in Range(a.restaurants) |-> proportion(a, r)],
               1, Frac(0 - 1, 1), <<>>)

\* random.choice(l): any element, IndexError on an empty list.
Chosen(l, mode, a) ==
  IF l = <<>> THEN {[exc |-> "IndexError", choice |-> None, mode |-> mode, alg |-> a]}
  ELSE {[exc |-> "ok", choice |-> c, mode |-> mode, alg |-> a] : c \in Range(l)}

\* select_restaurant of the two EpsilonGreedy classes.
epsilon_select(a, best) ==
  IF a.initial_rounds_left # <<>>
  THEN {[exc |-> "ok", choice |-> pop_first(a.initial_rounds_left).item,
         mode |-> "warmup",
         alg |-> [a EXCEPT !.initial_rounds_left = pop_first(@).rest]]}
  ELSE UNION {IF e THEN Chosen(a.restaurants, "explore", a)
              ELSE Chosen(best, "exploit", a)
              : e \in explores(a.epsilon)}

\* The empty review text, which Python's `and` takes for false as it does None.
EmptyText == 0 - 2

\* bool(x) of a last choice (a name or None) and of a last review text.
truthy_choice(x) == x # None
truthy(x) == x \notin {NoReview, EmptyText}

\* A faulty option list that does not leave out the last choice.
fairweather_options_mutant_all(a) == a.restaurants

\* options = [r for r in self.restaurants if r != self._last_choice]
fairweather_options(a) == SelectSeq(a.restaurants, LAMBDA r : r # a.last_choice)

\* The outcomes outs of a select, with the texts it had classified.
Asked(outs, texts) ==
  {[exc |-> o.exc, choice |-> o.choice, mode |-> o.mode, alg |-> o.alg,
    classified |-> texts] : o \in outs}

\* FairweatherFriend.select_restaurant.  The mode tells the way taken:
\* "repeat" when the classifier was asked and said "Good" (or failed),
\* "switch" when it was asked and said "Bad", "random" when it was not asked;
\* classified lists the texts classify was called on.
fairweather_select(a) ==
  LET options == fairweather_options(a)
      fresh(mode) == IF options = <<>>
                     THEN {[exc |-> "ok", choice |-> a.restaurants[1], mode |-> mode,
                            alg |-> a]}
                     ELSE Chosen(options, mode, a)
  IN IF truthy_choice(a.last_choice) /\ truthy(a.last_review_text)
     THEN UNION {Asked(IF IsError(c)
                       THEN {[exc |-> c, choice |-> None, mode |-> "repeat", alg |-> a]}
                       ELSE IF c = "Good"
                       THEN {[exc |-> "ok", choice |-> a.last_choice, mode |-> "repeat",
                              alg |-> a]}
                       ELSE fresh("switch"),
                       <<a.last_review_text>>)
                 : c \in classify}
     ELSE Asked(fresh("random"), <<>>)

\* select_restaurant(): the set of possible outcomes [exc, choice, mode, alg].
select_restaurant(a) ==
  CASE a.cls = "RandomChoice" -> Chosen(a.restaurants, "random", a)
    [] a.cls = "FairweatherFriend" -> fairweather_select(a)
    [] a.cls = "EpsilonGreedy" -> epsilon_select(a, class_best_restaurants(a))
    [] a.cls = "ScoreEpsilonGreedy" -> epsilon_select(a, score_best_restaurants(a))

\* The name of the second parameter of each class's update method.
update_parameter(cls) ==
  IF cls \in {"FairweatherFriend", "EpsilonGreedy"} THEN "review_text" ELSE "score"

\* EpsilonGreedy.update of the classification-based class, given the answer
\* c of the classifier: only "Good" changes a counter.
class_update(a, restaurant, c) ==
  IF c = "Good"
  THEN [a EXCEPT !.counts[restaurant].good = @ + 1]
  ELSE a

\* A faulty update of the mean that halves the way to the new score.
score_update_mutant_half_way(a, restaurant, score) ==
  [a EXCEPT !.scores[restaurant] = Append(@, score),
            !.averages[restaurant] = Frac(@[1] + score * @[2], 2 * @[2])]

\* EpsilonGreedy.update of the score-based class.
score_update(a, restaurant, score) ==
  LET l == Append(a.scores[restaurant], score)
  IN [a EXCEPT !.scores[restaurant] = l,
               !.averages[restaurant] = Frac(Sum(l), Len(l))]

\* A faulty no-op that remembers the restaurant, as FairweatherFriend does.
random_update_mutant_remembers(a, restaurant, score) ==
  [a EXCEPT !.last_choice = restaurant]

\* RandomChoice.update: pass.
random_update(a, restaurant, score) == a

\* A faulty update that classifies the text right away and fails with it.
fairweather_update_mutant_eager(a, restaurant, review_text) ==
  {IF IsError(c) THEN [exc |-> c, alg |-> a, given |-> "nothing"]
   ELSE [exc |-> "ok", given |-> review_text,
         alg |-> [a EXCEPT !.last_choice = restaurant,
                           !.last_review_text = review_text]]
   : c \in classify}

\* FairweatherFriend.update: the two assignments.
fairweather_update(a, restaurant, review_text) ==
  {[exc |-> "ok", given |-> review_text,
    alg |-> [a EXCEPT !.last_choice = restaurant,
                      !.last_review_text = review_text]]}

\* A faulty update that takes a failure of the classifier for a label.
update_mutant_fallback_label(a, restaurant, kw, value) ==
  IF kw # update_parameter(a.cls)
  THEN {[exc |-> "TypeError", alg |-> a, given |-> "nothing"]}
  ELSE CASE a.cls = "RandomChoice" ->
              {[exc |-> "ok", alg |-> random_update(a, restaurant, value),
                given |-> value]}
         [] a.cls = "FairweatherFriend" -> fairweather_update(a, restaurant, value)
         [] a.cls = "EpsilonGreedy" ->
              {[exc |-> "ok", alg |-> class_update(a, restaurant, c), given |-> c]
               : c \in classify}
         [] a.cls = "ScoreEpsilonGreedy" ->
              {[exc |-> "ok", alg |-> score_update(a, restaurant, value),
                given |-> value]}

\* update(restaurant, <kw>=value): the set of possible outcomes
\* [exc, alg, given]; given is what the belief state was updated on.
update(a, restaurant, kw, value) ==
  IF kw # update_parameter(a.cls)
  THEN {[exc |-> "TypeError", alg |-> a, given |-> "nothing"]}
  ELSE CASE a.cls = "RandomChoice" ->
              {[exc |-> "ok", alg |-> random_update(a, restaurant, value),
                given |-> value]}
         [] a.cls = "FairweatherFriend" -> fairweather_update(a, restaurant, value)
         [] a.cls = "EpsilonGreedy" ->
              {IF IsError(c) THEN [exc |-> c, alg |-> a, given |-> "nothing"]
               ELSE [exc |-> "ok", alg |-> class_update(a, restaurant, c), given |-> c]
               : c \in classify}
         [] a.cls = "ScoreEpsilonGreedy" ->
              {[exc |-> "ok", alg |-> score_update(a, restaurant, value),
                given |-> value]}

\* ------------------------------------------------- a policy object's life
\* The restaurant lists and the epsilons (in percent) policies are built with.
ArmLists == {<<"A">>, <<"A", "B">>, <<"B", "A", "C">>}
Epsilons == {0, 50, 100}

\* The review texts (by row, and the empty one) and the scores handed to
\* update.
Texts == {1, 2, EmptyText}
Scores == 1..MaxScore

InitPolicy ==
  /\ IdleSelector
  /\ alg \in {RandomChoice(rs).alg : rs \in ArmLists}
          \cup {FairweatherFriend(rs, "classifier").alg : rs \in ArmLists}
          \cup {EpsilonGreedy(rs, "classifier", e).alg : rs \in ArmLists, e \in Epsilons}
          \cup {ScoreEpsilonGreedy(rs, e).alg : rs \in ArmLists, e \in Epsilons}
  /\ selects = <<>>
  /\ lastSel = NoSelect
  /\ passed = [r \in Range(alg.restaurants) |-> <<>>]
  /\ exp = NoExperiment

PolicySelect ==
  \E o \in select_restaurant(alg) :
    /\ alg' = o.alg
    /\ lastSel' = [exc |-> o.exc, choice |-> o.choice, mode |-> o.mode]
    /\ selects' = IF Len(selects) < Len(alg.restaurants)
                  THEN Append(selects, [exc |-> o.exc, choice |-> o.choice,
                                        mode |-> o.mode])
                  ELSE selects
    /\ UNCHANGED <<selectorVars, last, epoch, resolved, passed, exp>>

Updates == Sum([i \in 1..Len(alg.restaurants) |-> Len(passed[alg.restaurants[i]])])

PolicyUpdate(r, value) ==
  /\ Updates < MaxUpdates
  /\ \E o \in update(alg, r, update_parameter(alg.cls), value) :
       /\ alg' = o.alg
       /\ passed' = IF o.exc = "ok" /\ hasattr(alg, "epsilon")
                    THEN [passed EXCEPT ![r] = Append(@, o.given)]
                    ELSE passed
       /\ lastSel' = NoSelect
       /\ UNCHANGED <<selectorVars, last, epoch, resolved, selects, exp>>

NextPolicy ==
  \/ PolicySelect
  \/ \E r \in Range(alg.restaurants),
        value \in (IF update_parameter(alg.cls) = "score" THEN Scores ELSE Texts) :
       PolicyUpdate(r, value)

SpecPolicy == InitPolicy /\ [][NextPolicy]_vars

\* How many of the updates given for r had the label c.
Count(l, c) == Cardinality({i \in DOMAIN l : l[i] = c})

\* C8: after any sequence of successful updates of the classification-based
\* EpsilonGreedy, good_count[r] is the number of updates for r classified
\* "Good" and bad_count[r] the number classified "Bad".
C8_CountsFollowClassification ==
  alg.cls = "EpsilonGreedy" =>
    \A r \in Range(alg.restaurants) :
      /\ alg.counts[r].good = Count(passed[r], "Good")
      /\ alg.counts[r].bad = Count(passed[r], "Bad")

\* C9: the first |restaurants| select calls of either EpsilonGreedy class
\* return the restaurants one by one in the order given, by the warm-up
\* branch and never by a random choice, whatever epsilon is and whatever
\* updates come in between.
C9_WarmUpInOrder ==
  hasattr(alg, "epsilon") =>
    /\ \A i \in DOMAIN selects :
         selects[i] = [exc |-> "ok", choice |-> alg.restaurants[i], mode |-> "warmup"]
    /\ Len(selects) + Len(alg.initial_rounds_left) = Len(alg.restaurants)

\* C9 witness: a three-restaurant classification-based policy that always
\* explores (epsilon = 1) has just finished its warm-up, with updates made
\* before the last warm-up select.
C9_Witness ==
  /\ alg.cls = "EpsilonGreedy"
  /\ alg.epsilon = 100
  /\ Len(alg.restaurants) = 3
  /\ Len(selects) = 3
  /\ lastSel.mode = "warmup"
  /\ Updates >= 2

\* The running mean of r: sum/length of the scores passed for r (0.0, the
\* initial average, while none was passed).
RunningMean(r) ==
  IF passed[r] = <<>> THEN Frac(0, 1) ELSE Frac(Sum(passed[r]), Len(passed[r]))

\* The restaurants whose running mean is the maximum.
ArgMax(rs) == {r \in rs : \A q \in rs : ~FracLess(RunningMean(r), RunningMean(q))}

\* C10: once the warm-up of a score-based EpsilonGreedy with epsilon = 0 is
\* over, the restaurants select can return are exactly those whose running
\* mean is the maximum (every tied one, none with a lower mean), and the
\* last select returned one of them.
C10_ExploitPicksAnyMaximum ==
  (alg.cls = "ScoreEpsilonGreedy" /\ alg.epsilon = 0 /\ alg.initial_rounds_left = <<>>) =>
    /\ \A o \in select_restaurant(alg) : o.exc = "ok" /\ o.mode = "exploit"
    /\ {o.choice : o \in select_restaurant(alg)} = ArgMax(Range(alg.restaurants))
    /\ lastSel.mode \notin {"none", "warmup"} =>
         /\ lastSel.mode = "exploit"
         /\ lastSel.choice \in ArgMax(Range(alg.restaurants))

\* C10 witness: "B" and "A" are tied for the maximum, "C" is observed and
\* lower, and select has just returned "A", which comes after "B".
C10_Witness ==
  /\ alg.cls = "ScoreEpsilonGreedy"
  /\ alg.epsilon = 0
  /\ alg.restaurants = <<"B", "A", "C">>
  /\ passed["C"] # <<>>
  /\ ArgMax({"A", "B", "C"}) = {"A", "B"}
  /\ lastSel = [exc |-> "ok", choice |-> "A", mode |-> "exploit"]

\* C19: whatever updates a RandomChoice was given, it is the object its
\* constructor made (the list of restaurants as given, nothing learned), and
\* select can return each of its restaurants and nothing else.
C19_RandomChoiceUpdateIsNoOp ==
  alg.cls = "RandomChoice" =>
    /\ alg \in {RandomChoice(rs).alg : rs \in ArmLists}
    /\ Range(alg.restaurants) = DOMAIN passed
    /\ \A o \in select_restaurant(alg) : o.exc = "ok" /\ o.alg = alg
    /\ {o.choice : o \in select_restaurant(alg)} = DOMAIN passed
    /\ lastSel.mode # "none" => lastSel.exc = "ok" /\ lastSel.choice \in DOMAIN passed

\* C19 witness: a three-restaurant RandomChoice has returned each of its
\* restaurants once and has just been updated.
C19_Witness ==
  /\ alg.cls = "RandomChoice"
  /\ Len(alg.restaurants) = 3
  /\ Len(selects) = 3
  /\ {selects[i].choice : i \in 1..3} = {"A", "B", "C"}
  /\ lastSel = NoSelect

\* C27: after any updates of a score-based EpsilonGreedy, the score list of
\* every restaurant is the sequence of the scores passed for it, in call
\* order, and its average is the sum of that list over its length (0.0
\* while the list is empty): an update for one restaurant leaves the others'
\* lists and averages alone.
C27_ScoresAndMeansFollowUpdates ==
  alg.cls = "ScoreEpsilonGreedy" =>
    \A r \in Range(alg.restaurants) :
      /\ alg.scores[r] = passed[r]
      /\ alg.averages[r][2] > 0
      /\ IF passed[r] = <<>> THEN alg.averages[r] = Frac(0, 1)
         ELSE alg.averages[r][1] * Len(passed[r]) = Sum(passed[r]) * alg.averages[r][2]

\* C27 witness: "A" was given two different scores, "B" one, and "C" none.
C27_Witness ==
  /\ alg.cls = "ScoreEpsilonGreedy"
  /\ alg.restaurants = <<"B", "A", "C">>
  /\ Len(passed["A"]) = 2
  /\ passed["A"][1] # passed["A"][2]
  /\ Len(passed["B"]) = 1
  /\ passed["C"] = <<>>

\* C28: FairweatherFriend.update stores the restaurant and the text and
\* does nothing else, whatever the classifier would answer; select calls
\* classify at most once, on the text of the last update, and changes
\* nothing.
C28_ClassifyOnlyInSelect ==
  alg.cls = "FairweatherFriend" =>
    /\ \A o \in select_restaurant(alg) :
         /\ Len(o.classified) <= 1
         /\ \A i \in DOMAIN o.classified : o.classified[i] = alg.last_review_text
         /\ o.classified # <<>> <=> o.mode \in {"repeat", "switch"}
         /\ o.alg = alg
    /\ \A r \in Range(alg.restaurants), t \in Texts :
         update(alg, r, "review_text", t) =
           {[exc |-> "ok", given |-> t,
             alg |-> [alg EXCEPT !.last_choice = r, !.last_review_text = t]]}
    /\ lastSel.mode \in {"repeat", "switch"} =>
         truthy_choice(alg.last_choice) /\ truthy(alg.last_review_text)

\* C28 witness: after updates, a select has asked the classifier about
\* the last text, was told "Bad" and left the last restaurant.
C28_Witness ==
  /\ alg.cls = "FairweatherFriend"
  /\ alg.last_review_text = 2
  /\ alg.last_choice = "A"
  /\ Len(selects) >= 2
  /\ lastSel.mode = "switch"
  /\ lastSel.choice = "B"

\* The lowest score an observation can have (quantify answers 1..100).
LowestScore == 1

\* C11: in exploitation of the score-based EpsilonGreedy with epsilon = 0, an
\* arm without any observation is valued above the lowest possible value, so
\* it is valued above an observed arm whose running mean is the lowest
\* possible score, and select does not return that observed arm.
C11_UnobservedArmValuedHigh ==
  (alg.cls = "ScoreEpsilonGreedy" /\ alg.epsilon = 0 /\ alg.initial_rounds_left = <<>>) =>
    \A u, q \in Range(alg.restaurants) :
      (passed[u] = <<>> /\ passed[q] # <<>>
         /\ FracEq(RunningMean(q), Frac(LowestScore, 1))) =>
        /\ FracLess(alg.averages[q], alg.averages[u])
        /\ q \notin {o.choice : o \in select_restaurant(alg)}

\* C12: FairweatherFriend.select returns the previous arm when there is a
\* previous turn and the classifier calls its review text "Good"; otherwise
\* (classifier says "Bad", or not asked) it returns an arm other than the
\* previous one, each such arm being possible, and the only arm when the
\* policy has a single one.
Others(a) ==
  IF Range(a.restaurants) \ {a.last_choice} = {} THEN Range(a.restaurants)
  ELSE Range(a.restaurants) \ {a.last_choice}

C12_FairweatherRepeatsOnGood ==
  alg.cls = "FairweatherFriend" =>
    /\ lastSel.mode = "repeat" /\ lastSel.exc = "ok" =>
         /\ alg.last_choice # None
         /\ lastSel.choice = alg.last_choice
    /\ lastSel.mode \in {"switch", "random"} =>
         /\ lastSel.exc = "ok"
         /\ lastSel.choice \in Others(alg)
    /\ lastSel.mode = "random" => ~(truthy_choice(alg.last_choice) /\ truthy(alg.last_review_text))
    /\ {o.choice : o \in {x \in select_restaurant(alg) : x.mode \in {"switch", "random"}}}
         = Others(alg)
    /\ \A o \in select_restaurant(alg) :
         o.mode = "repeat" /\ o.exc = "ok" => o.choice = alg.last_choice

\* C12 witness: three turns of a three-arm policy, the second repeating the
\* first's arm on "Good" and the third leaving it on "Bad".
C12_Witness ==
  /\ alg.cls = "FairweatherFriend"
  /\ Len(alg.restaurants) = 3
  /\ Len(selects) = 3
  /\ selects[1].mode = "random"
  /\ selects[2].mode = "repeat" /\ selects[2].choice = selects[1].choice
  /\ selects[3].mode = "switch" /\ selects[3].choice # selects[2].choice
  /\ alg.last_choice = selects[2].choice
  /\ lastSel = selects[3]

\* ------------------------------------------- experiments (simulation.py)
\* ReviewQuantifier.quantify: a score in 1..100, or what it raises: the
\* RuntimeError of _call_api, the ValueError of an answer that is no score
\* in the range, the AttributeError of _call_api on an answer whose content
\* is no text (quantify catches ValueError and IndexError only).
quantify ==
  {[exc |-> "ok", score |-> x] : x \in Scores}
    \cup {[exc |-> e, score |-> 0]
          : e \in {"RuntimeError", "ValueError", "AttributeError"}}

\* algorithm.__class__.__name__ (both EpsilonGreedy classes share a name).
class_name(a) == IF a.cls = "ScoreEpsilonGreedy" THEN "EpsilonGreedy" ELSE a.cls

\* algorithm_class(*args): the constructor of class cls called with the
\* positional arguments args; epsilon takes its default when not passed.
construct(cls, args) ==
  CASE cls = "RandomChoice" /\ Len(args) = 1 -> RandomChoice(args[1])
    [] cls = "FairweatherFriend" /\ Len(args) = 2 -> FairweatherFriend(args[1], args[2])
    [] cls = "EpsilonGreedy" /\ Len(args) = 2 ->
         EpsilonGreedy(args[1], args[2], DefaultEpsilon)
    [] cls = "EpsilonGreedy" /\ Len(args) = 3 -> EpsilonGreedy(args[1], args[2], args[3])
    [] cls = "ScoreEpsilonGreedy" /\ Len(args) = 1 ->
         ScoreEpsilonGreedy(args[1], DefaultEpsilon)
    [] cls = "ScoreEpsilonGreedy" /\ Len(args) = 2 -> ScoreEpsilonGreedy(args[1], args[2])
    [] OTHER -> [exc |-> "TypeError", alg |-> NoPolicy]

\* A faulty reset of the policy that takes the object it was given.
fresh_algorithm_mutant_reuses(a) == [exc |-> "ok", alg |-> a, same |-> TRUE]

\* The fresh instance run_synchronized_experiment makes of a policy:
\* [exc, alg, same], same telling that alg is the object a itself.  No
\* class sets _quantifier, whose value the first branch would pass on.
fresh_algorithm(a) ==
  IF hasattr(a, "__dict__")
  THEN LET made == IF hasattr(a, "epsilon") /\ hasattr(a, "_quantifier")
                   THEN construct(a.cls, <<a.restaurants, None, a.epsilon>>)
                   ELSE IF hasattr(a, "_classifier")
                   THEN construct(a.cls, <<a.restaurants, a.classifier>>)
                   ELSE construct(a.cls, <<a.restaurants>>)
       IN [exc |-> made.exc, alg |-> made.alg, same |-> FALSE]
  ELSE [exc |-> "ok", alg |-> a, same |-> TRUE]

\* A faulty record of the score the policy was updated with.
eval_score_mutant_update_value(review, value) == value

\* eval_score = float(review_data["Rating"]) of the row review; value is
\* what the policy was updated with, which the code does not look at here.
eval_score(review, value) == Rating(review)

\* The update part of a step of run_synchronized_experiment for the chosen
\* restaurant and the row review: the set of update outcomes.
sync_update(a, chosen, review) ==
  IF a.cls = "FairweatherFriend"
  THEN update(a, chosen, "review_text", review)
  ELSE UNION {IF q.exc = "ok" \/ Recovered(q.exc)
              THEN update(a, chosen, "score",
                          IF q.exc = "ok" THEN q.score ELSE Rating(review))
              ELSE {[exc |-> q.exc, alg |-> a, given |-> "nothing"]}
              : q \in quantify}

NoEntry == [step |-> 0 - 1, choice |-> None, score |-> 0, review |-> NoReview]

\* One iteration of the step loop of run_synchronized_experiment: the set
\* of outcomes [exc, alg, shuffled, cache, entry]; entry is the history
\* record (with the row it came from).
sync_step(a, sh, cache, cur, step) ==
  UNION {
    IF sel.exc # "ok"
    THEN {[exc |-> sel.exc, alg |-> sel.alg, shuffled |-> sh, cache |-> cache,
           entry |-> NoEntry]}
    ELSE UNION {
      IF g.exc # "ok"
      THEN {[exc |-> g.exc, alg |-> sel.alg, shuffled |-> g.shuffled,
             cache |-> g.cache, entry |-> NoEntry]}
      ELSE {[exc |-> u.exc, alg |-> u.alg, shuffled |-> g.shuffled, cache |-> g.cache,
             entry |-> IF u.exc = "ok"
                       THEN [step |-> step, choice |-> sel.choice,
                             score |-> eval_score(g.review, u.given),
                             review |-> g.review]
                       ELSE NoEntry]
            : u \in sync_update(sel.alg, sel.choice, g.review)}
      : g \in get_synchronized_review(sh, cache, cur, sel.choice, step)}
    : sel \in select_restaurant(a)}

\* Policies that have been used before: a FairweatherFriend after one
\* turn, a score-based EpsilonGreedy after its warm-up.
Learned ==
  {u.alg : u \in fairweather_update(FairweatherFriend(<<"A", "B">>, "classifier").alg,
                                    "A", 1)}
    \cup {score_update(score_update([ScoreEpsilonGreedy(<<"A", "B">>, 0).alg
                                       EXCEPT !.initial_rounds_left = <<>>],
                                     "A", 2),
                        "B", 1)}

\* The policies an experiment is run on.
Originals ==
  {RandomChoice(<<"A", "B">>).alg,
   FairweatherFriend(<<"A", "B">>, "classifier").alg,
   EpsilonGreedy(<<"A", "B">>, "classifier", 50).alg,
   ScoreEpsilonGreedy(<<"A", "B">>, 0).alg,
   ScoreEpsilonGreedy(<<"B", "A">>, 10).alg}
    \cup Learned


\* run_synchronized_experiment is called with two policies and a selector
\* over restaurants "A" and "B"; the synchronized selector is built from it.
InitSync ==
  /\ restaurants = {"A", "B"}
  /\ review_indices = build_indices(SyncRecords, 1)
  /\ shuffled_indices = EmptyDict
  /\ timestep_cache = EmptyDict
  /\ current_timestep = 0
  /\ last = NoCall
  /\ epoch = EmptyDict
  /\ resolved = EmptyDict
  /\ IdlePolicy
  /\ \E p, q \in Originals :
       exp = [pc |-> "next", algorithms |-> <<p, q>>, num_steps |-> NumSteps,
              i |-> 1, step |-> 0, history |-> <<>>, all_results |-> <<>>,
              exc |-> "ok", given |-> <<p, q>>, same |-> FALSE]

\* The head of the loop over the policies: reset_all and the fresh instance.
SyncStartPolicy ==
  /\ exp.pc = "next"
  /\ exp.i <= Len(exp.algorithms)
  /\ LET o == sync_reset_all(shuffled_indices)
         f == fresh_algorithm(exp.algorithms[exp.i])
     IN /\ shuffled_indices' = o.shuffled
        /\ timestep_cache' = o.cache
        /\ current_timestep' = o.timestep
        /\ alg' = f.alg
        /\ exp' = IF f.exc = "ok"
                  THEN [exp EXCEPT !.pc = "steps", !.step = 0, !.history = <<>>,
                                   !.same = f.same]
                  ELSE [exp EXCEPT !.pc = "raised", !.exc = f.exc]
  /\ UNCHANGED <<restaurants, review_indices, last, epoch, resolved, selects,
                 lastSel, passed>>

\* One iteration of the loop over the steps.  What the step does to the
\* simulated object it does to the caller's when the two are the same.
SyncStep ==
  /\ exp.pc = "steps"
  /\ exp.step < exp.num_steps
  /\ \E o \in sync_step(alg, shuffled_indices, timestep_cache, current_timestep,
                        exp.step) :
       /\ alg' = o.alg
       /\ shuffled_indices' = o.shuffled
       /\ timestep_cache' = o.cache
       /\ LET objects == IF exp.same THEN [exp.algorithms EXCEPT ![exp.i] = o.alg]
                         ELSE exp.algorithms
          IN exp' = IF o.exc = "ok"
                    THEN [exp EXCEPT !.step = @ + 1, !.history = Append(@, o.entry),
                                     !.algorithms = objects]
                    ELSE [exp EXCEPT !.pc = "raised", !.exc = o.exc,
                                     !.algorithms = objects]
  /\ UNCHANGED <<restaurants, review_indices, current_timestep, last, epoch,
                 resolved, selects, lastSel, passed>>

\* The end of a policy's run: its history, tagged, joins the results.
SyncEndPolicy ==
  /\ exp.pc = "steps"
  /\ exp.step = exp.num_steps
  /\ exp' = [exp EXCEPT !.pc = "next", !.i = @ + 1,
                        !.all_results =
                          Append(@, [algorithm |-> class_name(exp.algorithms[exp.i]),
                                     history |-> exp.history])]
  /\ UNCHANGED <<selectorVars, last, epoch, resolved, policyVars>>

\* The return of the concatenated results.
SyncReturn ==
  /\ exp.pc = "next"
  /\ exp.i > Len(exp.algorithms)
  /\ exp' = [exp EXCEPT !.pc = "done"]
  /\ UNCHANGED <<selectorVars, last, epoch, resolved, policyVars>>

NextSync == SyncStartPolicy \/ SyncStep \/ SyncEndPolicy \/ SyncReturn

SpecSync == InitSync /\ [][NextSync]_vars

\* The histories of the experiment so far: the finished runs' and the
\* running one's.
Histories ==
  [k \in 1..Len(exp.all_results) |-> exp.all_results[k].history]
    \o (IF exp.pc \in {"steps", "raised"} THEN <<exp.history>> ELSE <<>>)

\* C1: whenever two policies of a synchronized experiment chose the same
\* restaurant at the same step, they were handed the same row, and so
\* recorded the same score.
C1_SameChoiceSameRecord ==
  \A p, q \in DOMAIN Histories :
    \A s \in DOMAIN Histories[p] \cap DOMAIN Histories[q] :
      Histories[p][s].choice = Histories[q][s].choice =>
        /\ Histories[p][s].review = Histories[q][s].review
        /\ Histories[p][s].score = Histories[q][s].score

\* C2: while a synchronized experiment runs, an entry of the cache is never
\* dropped or changed: what policy i's run cached is still there, with the
\* same row, during the runs of the later policies (the one reset comes
\* before the first run, when the cache is empty).
C2_CacheKeptAcrossPolicies ==
  [][\A key \in DOMAIN timestep_cache :
       /\ key \in DOMAIN timestep_cache'
       /\ timestep_cache'[key] = timestep_cache[key]]_vars

\* C7: the instance an experiment simulates has the class, the restaurants,
\* the epsilon and the classifier of the policy it was given, and starts
\* with an empty belief state.
C7_FreshInstanceKeepsParameters ==
  exp.pc = "steps" =>
    LET o == exp.algorithms[exp.i] IN
      /\ alg.cls = o.cls
      /\ alg.restaurants = o.restaurants
      /\ hasattr(o, "epsilon") => alg.epsilon = o.epsilon
      /\ hasattr(o, "_classifier") => alg.classifier = o.classifier
      /\ exp.step = 0 => alg = Policy(alg.cls, alg.attrs, alg.restaurants,
                                      alg.classifier, alg.epsilon)

\* ------------------------------------------- run_simulation (simulation.py)
\* The number of steps of the longest simulation.
SimSteps == NumSteps + 1

\* A faulty fetch without the except clause: one call, no reset.
sim_fetch_mutant_no_retry(sh, chosen) ==
  {[exc |-> g.exc, review |-> g.review, shuffled |-> g.shuffled, calls |-> 1,
    resets |-> 0] : g \in get_random_review(sh, chosen)}

\* The fetch of a step: get_random_review, and on IndexError reset and one
\* more get_random_review, outside the try.  Outcomes [exc, review,
\* shuffled, calls, resets] with the numbers of calls made.
sim_fetch(sh, chosen) ==
  UNION {IF g.exc = "IndexError"
         THEN LET r == reset(g.shuffled, chosen)
              IN IF r.exc # "ok"
                 THEN {[exc |-> r.exc, review |-> NoReview, shuffled |-> r.shuffled,
                        calls |-> 1, resets |-> 1]}
                 ELSE {[exc |-> h.exc, review |-> h.review, shuffled |-> h.shuffled,
                        calls |-> 2, resets |-> 1]
                       : h \in get_random_review(r.shuffled, chosen)}
         ELSE {[exc |-> g.exc, review |-> g.review, shuffled |-> g.shuffled,
                calls |-> 1, resets |-> 0]}
         : g \in get_random_review(sh, chosen)}

\* A faulty test that takes only FairweatherFriend for text-fed.
classification_oriented_mutant_fairweather_only(a) == a.cls = "FairweatherFriend"

\* isinstance(algorithm, (models.FairweatherFriend, models.EpsilonGreedy)):
\* models.EpsilonGreedy is the classification-based class.
classification_oriented(a) == a.cls \in {"FairweatherFriend", "EpsilonGreedy"}

\* A faulty scoring without the except clause: the error goes on.
sim_score_mutant_no_fallback(review) ==
  {[exc |-> q.exc, score |-> q.score, quantified |-> q.exc] : q \in quantify}

\* score = quantifier.quantify(review_text), and the row's Rating when that
\* raises RuntimeError or ValueError; another exception goes on.  Outcomes
\* [exc, score, quantified].
sim_score(review) ==
  {IF q.exc = "ok" THEN [exc |-> "ok", score |-> q.score, quantified |-> q.exc]
   ELSE IF Recovered(q.exc)
   THEN [exc |-> "ok", score |-> Rating(review), quantified |-> q.exc]
   ELSE [exc |-> q.exc, score |-> 0, quantified |-> q.exc]
   : q \in quantify}

\* What a step fed the policy: the keyword and value of update, how quantify
\* ended ("no": not called), what the policy learned (the label, for the
\* classification-based EpsilonGreedy), and the calls of the fetch.
Fed(kw, value, quantified, learned, f) ==
  [kw |-> kw, value |-> value, quantified |-> quantified, learned |-> learned,
   calls |-> f.calls, resets |-> f.resets]

NoFed == [kw |-> "none"]

\* The update part of a step for the row review.  Outcomes [exc, where,
\* alg, kw, value, quantified, learned].
sim_update(a, chosen, review) ==
  IF classification_oriented(a)
  THEN {[exc |-> u.exc, where |-> "update", alg |-> u.alg, kw |-> "review_text",
         value |-> review, quantified |-> "no",
         learned |-> IF a.cls = "EpsilonGreedy" THEN u.given ELSE "text"]
        : u \in update(a, chosen, "review_text", review)}
  ELSE UNION {
         IF q.exc # "ok"
         THEN {[exc |-> q.exc, where |-> "quantify", alg |-> a, kw |-> "score",
                value |-> q.score, quantified |-> q.quantified, learned |-> "nothing"]}
         ELSE {[exc |-> u.exc, where |-> "update", alg |-> u.alg, kw |-> "score",
                value |-> q.score, quantified |-> q.quantified, learned |-> "score"]
               : u \in update(a, chosen, "score", q.score)}
         : q \in sim_score(review)}

\* A faulty record that numbers the steps from 1.
history_entry_mutant_from_one(step, chosen, review, value) ==
  [step |-> step + 1, choice |-> chosen, score |-> eval_score(review, value),
   review |-> review]

\* {"step": step, "choice": chosen_restaurant, "score": eval_score}, with
\* the row the score was read from.
history_entry(step, chosen, review, value) ==
  [step |-> step, choice |-> chosen, score |-> eval_score(review, value),
   review |-> review]

\* One iteration of the loop of run_simulation.  Outcomes [exc, where,
\* choice, alg, shuffled, entry, fed]; when the step raised, where tells
\* the call that did and fed what had been done until then.
sim_step(a, sh, step) ==
  UNION {
    IF sel.exc # "ok"
    THEN {[exc |-> sel.exc, where |-> "select", choice |-> None, alg |-> sel.alg,
           shuffled |-> sh, entry |-> NoEntry, fed |-> NoFed]}
    ELSE UNION {
      IF f.exc # "ok"
      THEN {[exc |-> f.exc, where |-> "fetch", choice |-> sel.choice,
             alg |-> sel.alg, shuffled |-> f.shuffled, entry |-> NoEntry,
             fed |-> Fed("none", NoReview, "no", "nothing", f)]}
      ELSE {[exc |-> u.exc, where |-> u.where, choice |-> sel.choice, alg |-> u.alg,
             shuffled |-> f.shuffled,
             entry |-> IF u.exc = "ok"
                       THEN history_entry(step, sel.choice, f.review, u.value)
                       ELSE NoEntry,
             fed |-> Fed(u.kw, u.value, u.quantified, u.learned, f)]
            : u \in sim_update(sel.alg, sel.choice, f.review)}
      : f \in sim_fetch(sh, sel.choice)}
    : sel \in select_restaurant(a)}

\* The policies a simulation is run on; "C" has no row in the data.
SimPolicies ==
  {RandomChoice(<<"A", "B">>).alg,
   RandomChoice(<<"A", "C">>).alg,
   FairweatherFriend(<<"A", "B">>, "classifier").alg,
   EpsilonGreedy(<<"A", "B">>, "classifier", 50).alg,
   ScoreEpsilonGreedy(<<"B", "A">>, 0).alg}

\* run_simulation is called with a policy, a number of steps and a selector
\* over "A", "B" and "C" that is new or has dispensed the row of "B".
InitSim ==
  /\ restaurants = {"A", "B", "C"}
  /\ review_indices = build_indices(SyncRecords, 1)
  /\ shuffled_indices \in {EmptyDict, With(EmptyDict, "B", <<>>)}
  /\ timestep_cache = EmptyDict
  /\ current_timestep = 0
  /\ last = NoCall
  /\ epoch = EmptyDict
  /\ resolved = EmptyDict
  /\ alg \in SimPolicies
  /\ selects = <<>>
  /\ lastSel = NoSelect
  /\ passed = EmptyDict
  /\ \E n \in 0..SimSteps :
       exp = [pc |-> "sim_start", num_steps |-> n, step |-> 0, history |-> <<>>,
              trace |-> <<>>, exc |-> "ok", where |-> "none", choice |-> None,
              failed |-> NoFed, before |-> alg]

\* history = [] and review_selector.reset_all().
SimStart ==
  /\ exp.pc = "sim_start"
  /\ shuffled_indices' = selector_reset_all(shuffled_indices)
  /\ exp' = [exp EXCEPT !.pc = "sim_loop"]
  /\ UNCHANGED <<restaurants, review_indices, timestep_cache, current_timestep,
                 last, epoch, resolved, policyVars>>

\* One iteration of the loop; an exception ends the run.
SimStep ==
  /\ exp.pc = "sim_loop"
  /\ exp.step < exp.num_steps
  /\ \E o \in sim_step(alg, shuffled_indices, exp.step) :
       /\ alg' = o.alg
       /\ shuffled_indices' = o.shuffled
       /\ exp' = IF o.exc = "ok"
                 THEN [exp EXCEPT !.step = @ + 1, !.history = Append(@, o.entry),
                                  !.trace = Append(@, o.fed), !.before = o.alg]
                 ELSE [exp EXCEPT !.pc = "sim_raised", !.exc = o.exc,
                                  !.where = o.where, !.choice = o.choice,
                                  !.failed = o.fed]
  /\ UNCHANGED <<restaurants, review_indices, timestep_cache, current_timestep,
                 last, epoch, resolved, selects, lastSel, passed>>

\* return pd.DataFrame(history)
SimReturn ==
  /\ exp.pc = "sim_loop"
  /\ exp.step = exp.num_steps
  /\ exp' = [exp EXCEPT !.pc = "sim_returned"]
  /\ UNCHANGED <<selectorVars, last, epoch, resolved, policyVars>>

NextSim == SimStart \/ SimStep \/ SimReturn

SpecSim == InitSim /\ [][NextSim]_vars

\* Both experiment functions, each from its own start.
InitRuns == InitSim \/ InitSync

NextRuns == NextSim \/ NextSync

SpecRuns == InitRuns /\ [][NextRuns]_vars

\* Every restaurant of the policy has at least one row in the data.
EveryArmHasRecords == Range(alg.restaurants) \subseteq DOMAIN review_indices

\* The values the steps that chose r updated the policy with, in order.
FedFor(r) ==
  LET idx == SelectSeq(Interval(1, Len(exp.trace)), LAMBDA i : exp.history[i].choice = r)
  IN [k \in DOMAIN idx |-> exp.trace[idx[k]].value]

\* C13: for a selector in which every restaurant of the policy has a row,
\* run_simulation returns a history of exactly num_steps entries, numbered
\* 0..num_steps-1 in order, each with a restaurant of the policy and of the
\* selector and with the rating of one of that restaurant's own rows; only
\* an exception of the classifier, or one of the quantifier that
\* run_simulation does not recover from, keeps it from returning.
C13_ReturnedHistoryIsComplete ==
  (exp.pc \in {"sim_loop", "sim_returned", "sim_raised"} /\ EveryArmHasRecords) =>
    /\ exp.pc = "sim_returned" => Len(exp.history) = exp.num_steps
    /\ exp.pc = "sim_raised" =>
         /\ IsError(exp.exc)
         /\ IF classification_oriented(alg)
            THEN exp.where \in {"select", "update"}
            ELSE exp.where = "quantify" /\ ~Recovered(exp.exc)
    /\ \A i \in DOMAIN exp.history :
         /\ exp.history[i].step = i - 1
         /\ exp.history[i].choice \in Range(alg.restaurants) \cap restaurants
         /\ \E row \in Range(review_indices[exp.history[i].choice]) :
              exp.history[i].score = Rating(row)

\* C13 witness: a three-step run of the score-based policy has returned,
\* having chosen both restaurants.
C13_Witness ==
  /\ exp.pc = "sim_returned"
  /\ exp.num_steps = SimSteps
  /\ alg.cls = "ScoreEpsilonGreedy"
  /\ {exp.history[i].choice : i \in DOMAIN exp.history} = {"A", "B"}

\* The histories recorded by either experiment function so far.
Recorded ==
  IF exp.pc \in {"sim_start", "sim_loop", "sim_returned", "sim_raised"}
  THEN <<exp.history>>
  ELSE Histories

\* C14: every entry recorded by run_simulation or by
\* run_synchronized_experiment has as its score the Rating of the row
\* dispensed in that step, whatever the policy and whatever quantify did.
C14_ScoreIsTheRowsRating ==
  \A k \in DOMAIN Recorded :
    \A i \in DOMAIN Recorded[k] :
      /\ Recorded[k][i].review # NoReview
      /\ Recorded[k][i].score = Rating(Recorded[k][i].review)

\* C14 witness: a step of run_simulation whose quantify succeeded with a
\* score other than the row's rating, and a step whose quantify failed.
C14_Witness ==
  /\ exp.pc = "sim_returned"
  /\ \E i, j \in DOMAIN exp.history :
       /\ exp.trace[i].quantified = "ok"
       /\ exp.trace[i].value # exp.history[i].score
       /\ exp.trace[j].quantified = "RuntimeError"

\* C15: a quantify that fails with the error of the transport
\* (RuntimeError) or with that of an answer that is no score in the range
\* (ValueError) never ends run_simulation: the policy is updated with the
\* row's own rating, the step is recorded and the loop goes on.  A policy
\* fed with scores ends early only on a restaurant without rows, or on an
\* exception of quantify other than these two.
C15_QuantifyFailureFallsBack ==
  exp.pc \in {"sim_loop", "sim_returned", "sim_raised"} =>
    /\ (exp.pc = "sim_raised" /\ exp.where = "quantify") => ~Recovered(exp.exc)
    /\ (exp.pc = "sim_raised" /\ alg.cls \in {"RandomChoice", "ScoreEpsilonGreedy"}) =>
         \/ exp.where = "fetch" /\ ~EveryArmHasRecords
         \/ exp.where = "quantify"
    /\ Len(exp.trace) = Len(exp.history)
    /\ \A i \in DOMAIN exp.trace :
         exp.trace[i].quantified # "no" =>
           exp.trace[i].quantified = "ok" \/ Recovered(exp.trace[i].quantified)
    /\ \A i \in DOMAIN exp.trace :
         Recovered(exp.trace[i].quantified) =>
           /\ exp.trace[i].kw = "score"
           /\ exp.trace[i].value = Rating(exp.history[i].review)
    /\ alg.cls = "ScoreEpsilonGreedy" =>
         \A r \in Range(alg.restaurants) : alg.scores[r] = FedFor(r)

\* C15 witness: a returned three-step run of the score-based policy whose
\* first and last quantify failed and whose second succeeded.
C15_Witness ==
  /\ exp.pc = "sim_returned"
  /\ exp.num_steps = SimSteps
  /\ alg.cls = "ScoreEpsilonGreedy"
  /\ exp.trace[1].quantified = "ValueError"
  /\ exp.trace[2].quantified = "ok"
  /\ exp.trace[SimSteps].quantified = "RuntimeError"

\* How many of the first i - 1 entries chose the restaurant of entry i.
EarlierDraws(i) ==
  Cardinality({j \in 1..(i - 1) : exp.history[j].choice = exp.history[i].choice})

\* C16: a step of run_simulation makes one get_random_review call, and on
\* exhaustion one reset and exactly one more call.  So a restaurant with k
\* rows is reset exactly at its draws k, 2k, ... and never lets IndexError
\* out, while a restaurant without rows fails the second call too and the
\* IndexError ends the run.
C16_ExhaustionRetriedOnce ==
  exp.pc \in {"sim_loop", "sim_returned", "sim_raised"} =>
    /\ \A i \in DOMAIN exp.history :
         LET r == exp.history[i].choice IN
           /\ r \in DOMAIN review_indices
           /\ exp.trace[i].calls = 1 + exp.trace[i].resets
           /\ exp.trace[i].resets =
                (IF EarlierDraws(i) > 0 /\ EarlierDraws(i) % Len(review_indices[r]) = 0
                 THEN 1 ELSE 0)
    /\ (exp.pc = "sim_raised" /\ exp.exc = "IndexError") =>
         /\ exp.where = "fetch"
         /\ exp.choice \notin DOMAIN review_indices
         /\ exp.failed.resets = 1
         /\ exp.failed.calls = 2
    /\ (exp.pc = "sim_raised" /\ exp.where = "fetch") => exp.exc = "IndexError"

\* C16 witness: the only row of "B" was dispensed, "B" was chosen again and
\* the step went through with a reset; the run has returned.
C16_Witness ==
  /\ exp.pc = "sim_returned"
  /\ \E i \in DOMAIN exp.history :
       /\ exp.history[i].choice = "B"
       /\ exp.trace[i].resets = 1
       /\ exp.trace[i].calls = 2

\* C17: every step of run_simulation updates a FairweatherFriend and a
\* classification-based EpsilonGreedy with the text of the dispensed row,
\* without calling quantify, and every other policy with the score of
\* quantify or, when that failed, the row's rating; no update is called
\* with a parameter the policy does not have.
C17_UpdateByPolicyKind ==
  exp.pc \in {"sim_loop", "sim_returned", "sim_raised"} =>
    /\ exp.exc # "TypeError"
    /\ \A i \in DOMAIN exp.trace :
         IF alg.cls \in {"FairweatherFriend", "EpsilonGreedy"}
         THEN /\ exp.trace[i].kw = "review_text"
              /\ exp.trace[i].value = exp.history[i].review
              /\ exp.trace[i].quantified = "no"
         ELSE /\ exp.trace[i].kw = "score"
              /\ exp.trace[i].quantified # "no"
              /\ exp.trace[i].quantified = "ok" => exp.trace[i].value \in Scores
              /\ exp.trace[i].quantified # "ok" =>
                   exp.trace[i].value = Rating(exp.history[i].review)
    /\ (alg.cls = "FairweatherFriend" /\ exp.history # <<>>) =>
         /\ alg.last_choice = exp.history[Len(exp.history)].choice
         /\ alg.last_review_text = exp.history[Len(exp.history)].review

\* C17 witness: a classification-based EpsilonGreedy has gone through three
\* steps, fed with texts.
C17_Witness ==
  /\ exp.pc = "sim_returned"
  /\ alg.cls = "EpsilonGreedy"
  /\ Len(exp.trace) = SimSteps
  /\ exp.trace[SimSteps].kw = "review_text"

\* C18: a failure of classify in run_simulation (in the select of a
\* FairweatherFriend, in the update of a classification-based EpsilonGreedy)
\* ends the run with that error, whichever it is: no label stands in for
\* it, the belief state is that of the step before and the step has no
\* history entry.
C18_ClassifyFailurePropagates ==
  exp.pc \in {"sim_loop", "sim_returned", "sim_raised"} =>
    /\ \A i \in DOMAIN exp.trace :
         alg.cls = "EpsilonGreedy" => exp.trace[i].learned \in {"Good", "Bad"}
    /\ (exp.pc = "sim_raised" /\ IsError(exp.exc) /\ exp.where # "quantify") =>
         /\ alg.cls = "FairweatherFriend" => exp.where = "select"
         /\ alg.cls = "EpsilonGreedy" => exp.where = "update"
         /\ alg.cls \in {"FairweatherFriend", "EpsilonGreedy"}
         /\ alg.counts = exp.before.counts
         /\ alg.last_choice = exp.before.last_choice
         /\ alg.last_review_text = exp.before.last_review_text
         /\ Len(exp.history) = exp.step
         /\ exp.step < exp.num_steps

\* C18 witness: the second update of a classification-based EpsilonGreedy
\* failed on an invalid answer of the classifier, the first having counted
\* a "Good".
C18_Witness ==
  /\ exp.pc = "sim_raised"
  /\ alg.cls = "EpsilonGreedy"
  /\ exp.exc = "ValueError"
  /\ exp.where = "update"
  /\ exp.step = 1
  /\ \E r \in Range(alg.restaurants) : alg.counts[r].good = 1

\* -------------------------------------- ReviewSelector.__init__ (reviews.py)
\* The restaurants argument: a sequence of names, or None (not given).
NotGiven == [given |-> FALSE, names |-> <<>>]
Given(names) == [given |-> TRUE, names |-> names]

\* ReviewSelector(data, restaurants=requested) on a DataFrame with a rows of
\* "A" and then b rows of "B": the outcome [exc, restaurants,
\* review_indices].  Without the argument the restaurants are those of the
\* data; with it they are the names given, and the data is cut down to
\* their rows.  No path of the constructor raises.
ReviewSelector(a, b, requested) ==
  IF ~requested.given
  THEN [exc |-> "ok", restaurants |-> DOMAIN build_indices(a, b),
        review_indices |-> build_indices(a, b)]
  ELSE [exc |-> "ok", restaurants |-> Range(requested.names),
        review_indices |-> [r \in DOMAIN build_indices(a, b) \cap Range(requested.names)
                              |-> build_indices(a, b)[r]]]

\* The restaurants arguments a selector is built with.
Requests ==
  {NotGiven, Given(<<>>), Given(<<"C">>), Given(<<"A">>), Given(<<"A", "C">>),
   Given(<<"B", "A">>)}

\* Before the constructor call: its arguments are chosen.
InitNewSelector ==
  /\ IdleSelector
  /\ IdlePolicy
  /\ \E a \in 0..SyncRecords, b \in 0..1, q \in Requests :
       exp = [pc |-> "new_selector", a |-> a, b |-> b, requested |-> q, exc |-> "ok"]

\* The constructor call.
NewSelector ==
  /\ exp.pc = "new_selector"
  /\ LET o == ReviewSelector(exp.a, exp.b, exp.requested) IN
       /\ restaurants' = (IF o.exc = "ok" THEN o.restaurants ELSE restaurants)
       /\ review_indices' = (IF o.exc = "ok" THEN o.review_indices ELSE review_indices)
       /\ exp' = [exp EXCEPT !.pc = IF o.exc = "ok" THEN "selector_built"
                                    ELSE "selector_raised",
                             !.exc = o.exc]
  /\ UNCHANGED <<shuffled_indices, timestep_cache, current_timestep, last, epoch,
                 resolved, policyVars>>

\* reset_all() of the selector that was built: no working list is left.
BuiltResetAll ==
  /\ shuffled_indices' = selector_reset_all(shuffled_indices)
  /\ last' = Call("reset_all", None, NoTimestep, "ok", NoReview)
  /\ UNCHANGED <<restaurants, review_indices, timestep_cache, current_timestep,
                 epoch, resolved, policyVars, exp>>

\* The methods of the selector that was built.
UseSelector ==
  /\ exp.pc = "selector_built"
  /\ \/ \E r \in restaurants \cup {UnknownRestaurant} :
          SelGetRandomReview(r) \/ SelReset(r)
     \/ BuiltResetAll

NextNewSelector == NewSelector \/ UseSelector

SpecNewSelector == InitNewSelector /\ [][NextNewSelector]_vars

\* C21: a selector built with a restaurants argument has at least one
\* restaurant with rows: when the argument is empty, or names no restaurant
\* of the data, the constructor fails and no selector exists.
C21_NoSelectorWithoutUsableArms ==
  (exp.pc = "selector_built" /\ exp.requested.given) =>
    /\ restaurants # {}
    /\ DOMAIN review_indices # {}

\* ------------------------------------------------ the policies' constructors
\* The constructor call cls(rs, clf, eps), with the arguments the class takes.
new_policy(cls, rs, clf, eps) ==
  CASE cls = "RandomChoice" -> RandomChoice(rs)
    [] cls = "FairweatherFriend" -> FairweatherFriend(rs, clf)
    [] cls = "EpsilonGreedy" -> EpsilonGreedy(rs, clf, eps)
    [] cls = "ScoreEpsilonGreedy" -> ScoreEpsilonGreedy(rs, eps)

\* Before the constructor call: its arguments are chosen (epsilon in
\* percent, 150 being out of range).
InitNewPolicy ==
  /\ IdleSelector
  /\ IdlePolicy
  /\ \E cls \in {"RandomChoice", "FairweatherFriend", "EpsilonGreedy",
                 "ScoreEpsilonGreedy"},
        rs \in {<<>>, <<"B", "A">>}, clf \in {None, "classifier"}, eps \in {50, 150} :
       exp = [pc |-> "new_policy", cls |-> cls, rs |-> rs, clf |-> clf,
              eps |-> eps, exc |-> "ok"]

\* The constructor call.
NewPolicy ==
  /\ exp.pc = "new_policy"
  /\ LET o == new_policy(exp.cls, exp.rs, exp.clf, exp.eps) IN
       /\ alg' = o.alg
       /\ passed' = (IF o.exc = "ok" THEN [r \in Range(exp.rs) |-> <<>>] ELSE passed)
       /\ exp' = [exp EXCEPT !.pc = IF o.exc = "ok" THEN "policy_built"
                                    ELSE "policy_raised",
                             !.exc = o.exc]
  /\ UNCHANGED <<selectorVars, last, epoch, resolved, selects, lastSel>>

\* The methods of the policy that was built.
UsePolicy ==
  /\ exp.pc = "policy_built"
  /\ \/ PolicySelect
     \/ \E r \in Range(alg.restaurants),
           value \in (IF update_parameter(alg.cls) = "score" THEN Scores ELSE Texts) :
          PolicyUpdate(r, value)

NextNewPolicy == NewPolicy \/ UsePolicy

SpecNewPolicy == InitNewPolicy /\ [][NextNewPolicy]_vars

\* C22: the constructor of any policy fails on an empty list of restaurants,
\* and that of FairweatherFriend and of the classification-based
\* EpsilonGreedy on a missing classifier: no object is made.  A policy that
\* was made holds the restaurants in the order given, whatever it does later.
C22_ConstructionFailsEarly ==
  exp.pc \in {"policy_built", "policy_raised"} =>
    /\ (exp.rs = <<>>
          \/ (exp.cls \in {"FairweatherFriend", "EpsilonGreedy"} /\ exp.clf = None)) =>
         /\ exp.pc = "policy_raised"
         /\ exp.exc = "ValueError"
         /\ alg = NoPolicy
    /\ exp.pc = "policy_built" =>
         /\ alg.cls = exp.cls
         /\ alg.restaurants = exp.rs
    /\ exp.pc = "policy_raised" => alg = NoPolicy

\* C22 witness: FairweatherFriend(["B", "A"], None) has failed.
C22_Witness ==
  /\ exp.pc = "policy_raised"
  /\ exp.cls = "FairweatherFriend"
  /\ exp.rs = <<"B", "A">>
  /\ exp.clf = None
  /\ alg = NoPolicy

\* ------------------------------------------- run_experiment (simulation.py)
\* The policies an experiment compares; the last two are of two classes
\* that are both named EpsilonGreedy.
ExpPolicies ==
  {RandomChoice(<<"A", "B">>).alg,
   FairweatherFriend(<<"A", "B">>, "classifier").alg,
   EpsilonGreedy(<<"A", "B">>, "classifier", 50).alg,
   ScoreEpsilonGreedy(<<"B", "A">>, 0).alg}

\* The list the caller sees after the object at position i has come to the
\* state a: every position that holds that same object shows it.
Mutated(algorithms, ident, i, a) ==
  [k \in DOMAIN algorithms |-> IF ident[k] = ident[i] THEN a ELSE algorithms[k]]

\* run_experiment is called with a list of two policies (two objects, or
\* one object twice: ident tells which positions hold the same object), a
\* number of steps and a selector over "A" and "B".
InitExp ==
  /\ restaurants = {"A", "B"}
  /\ review_indices = build_indices(SyncRecords, 1)
  /\ shuffled_indices = EmptyDict
  /\ timestep_cache = EmptyDict
  /\ current_timestep = 0
  /\ last = NoCall
  /\ epoch = EmptyDict
  /\ resolved = EmptyDict
  /\ IdlePolicy
  /\ \E p, q \in ExpPolicies, n \in 0..NumSteps, twice \in BOOLEAN :
       exp = [pc |-> "exp_next",
              algorithms |-> IF twice THEN <<p, p>> ELSE <<p, q>>,
              ident |-> IF twice THEN <<1, 1>> ELSE <<1, 2>>,
              num_steps |-> n, i |-> 1, step |-> 0, history |-> <<>>,
              resets |-> <<>>, all_results |-> <<>>, exc |-> "ok"]

\* The head of the loop over the policies and the start of run_simulation
\* for the policy object itself, in the state the runs before left it in:
\* history = [], reset_all().
ExpStartRun ==
  /\ exp.pc = "exp_next"
  /\ exp.i <= Len(exp.algorithms)
  /\ alg' = exp.algorithms[exp.i]
  /\ shuffled_indices' = selector_reset_all(shuffled_indices)
  /\ exp' = [exp EXCEPT !.pc = "exp_steps", !.step = 0, !.history = <<>>,
                        !.resets = <<>>]
  /\ UNCHANGED <<restaurants, review_indices, timestep_cache, current_timestep,
                 last, epoch, resolved, selects, lastSel, passed>>

\* One iteration of the loop of run_simulation, on the caller's object;
\* resets keeps, for every entry, the number of resets its fetch needed.
ExpStep ==
  /\ exp.pc = "exp_steps"
  /\ exp.step < exp.num_steps
  /\ \E o \in sim_step(alg, shuffled_indices, exp.step) :
       /\ alg' = o.alg
       /\ shuffled_indices' = o.shuffled
       /\ LET objects == Mutated(exp.algorithms, exp.ident, exp.i, o.alg)
          IN exp' = IF o.exc = "ok"
                    THEN [exp EXCEPT !.step = @ + 1, !.history = Append(@, o.entry),
                                     !.resets = Append(@, o.fed.resets),
                                     !.algorithms = objects]
                    ELSE [exp EXCEPT !.pc = "exp_raised", !.exc = o.exc,
                                     !.algorithms = objects]
  /\ UNCHANGED <<restaurants, review_indices, timestep_cache, current_timestep,
                 last, epoch, resolved, selects, lastSel, passed>>

\* The return of run_simulation and the rest of the loop body: the history
\* is tagged with the class's name and joins the results.  No policy is
\* running until the next run starts.
ExpEndRun ==
  /\ exp.pc = "exp_steps"
  /\ exp.step = exp.num_steps
  /\ alg' = NoPolicy
  /\ exp' = [exp EXCEPT !.pc = "exp_next", !.i = @ + 1,
                        !.all_results =
                          Append(@, [algorithm |-> class_name(exp.algorithms[exp.i]),
                                     history |-> exp.history,
                                     resets |-> exp.resets])]
  /\ UNCHANGED <<selectorVars, last, epoch, resolved, selects, lastSel, passed>>

\* return pd.concat(all_results, ignore_index=True)
ExpReturn ==
  /\ exp.pc = "exp_next"
  /\ exp.i > Len(exp.algorithms)
  /\ exp' = [exp EXCEPT !.pc = "exp_returned"]
  /\ UNCHANGED <<selectorVars, last, epoch, resolved, policyVars>>

NextExp == ExpStartRun \/ ExpStep \/ ExpEndRun \/ ExpReturn

SpecExp == InitExp /\ [][NextExp]_vars

\* C23: run_experiment returns, in the order of the policies, one history
\* of num_steps records per policy, each tagged with the identity of its
\* policy: two different policies of the experiment have different tags.
C23_ResultsTaggedByPolicy ==
  exp.pc = "exp_returned" =>
    /\ Len(exp.all_results) = Len(exp.algorithms)
    /\ \A k \in DOMAIN exp.all_results :
         /\ Len(exp.all_results[k].history) = exp.num_steps
         /\ \A i \in DOMAIN exp.all_results[k].history :
              /\ exp.all_results[k].history[i].step = i - 1
              /\ exp.all_results[k].history[i].choice
                   \in Range(exp.algorithms[k].restaurants)
    /\ \A k, l \in DOMAIN exp.all_results :
         exp.ident[k] # exp.ident[l] =>
           exp.all_results[k].algorithm # exp.all_results[l].algorithm

\* The belief state of an EpsilonGreedy holds an observation of r.
Observed(a, r) ==
  IF a.cls = "ScoreEpsilonGreedy" THEN a.scores[r] # <<>>
  ELSE a.counts[r].good + a.counts[r].bad >= 1

\* C24: in run_simulation with either EpsilonGreedy class over N
\* restaurants, once N steps are done every restaurant has an observation
\* in the belief state (a score, or a counted "Good" or "Bad").
C24_WarmUpObservesEveryArm ==
  (exp.pc \in {"sim_loop", "sim_returned"} /\ hasattr(alg, "epsilon")
     /\ exp.step >= Len(alg.restaurants)) =>
    \A r \in Range(alg.restaurants) : Observed(alg, r)

\* What an update did, whatever it reported as given.
Effect(outcomes) == {[exc |-> u.exc, alg |-> u.alg] : u \in outcomes}

\* C25: a step of run_synchronized_experiment feeds the policy as a step of
\* run_simulation does: for every row the update call has the same
\* parameter (review text for FairweatherFriend and the classification-based
\* EpsilonGreedy, a score for the others) and so the same possible effects,
\* and no update fails on its parameter.
C25_SameFeedbackAsRunSimulation ==
  /\ exp.pc = "raised" => exp.exc # "TypeError"
  /\ exp.pc = "steps" =>
       \A c \in Range(alg.restaurants) \cap DOMAIN review_indices :
         \A review \in Range(review_indices[c]) :
           Effect(sync_update(alg, c, review)) = Effect(sim_update(alg, c, review))

\* The runs of the experiment so far, finished or not: their histories and
\* the resets their fetches needed.
Runs ==
  [k \in 1..Len(exp.all_results) |->
     [history |-> exp.all_results[k].history, resets |-> exp.all_results[k].resets]]
    \o (IF exp.pc \in {"exp_steps", "exp_raised"}
        THEN <<[history |-> exp.history, resets |-> exp.resets]>> ELSE <<>>)

\* How many of the first i - 1 entries of the history h chose h[i]'s restaurant.
EarlierIn(h, i) == Cardinality({j \in 1..(i - 1) : h[j].choice = h[i].choice})

\* C29: every run of run_experiment starts, before its first select, with
\* no working list left from the runs before it, so that every pool is
\* full: in each run a restaurant with k rows is reset at its draws k, 2k,
\* ... of that run only, however many rows the earlier runs took.
C29_EveryRunStartsWithFullPools ==
  exp.pc \in {"exp_next", "exp_steps", "exp_raised", "exp_returned"} =>
    /\ (exp.pc = "exp_steps" /\ exp.step = 0) => shuffled_indices = EmptyDict
    /\ \A k \in DOMAIN Runs :
         \A i \in DOMAIN Runs[k].history :
           LET h == Runs[k].history
               n == Len(review_indices[h[i].choice])
           IN Runs[k].resets[i] =
                (IF EarlierIn(h, i) > 0 /\ EarlierIn(h, i) % n = 0 THEN 1 ELSE 0)

\* C29 witness: the first run took the only row of "B"; the second run
\* chose "B" at its first step and got the row without a reset.
C29_Witness ==
  /\ exp.pc = "exp_steps"
  /\ exp.i = 2
  /\ \E i \in DOMAIN exp.all_results[1].history :
       exp.all_results[1].history[i].choice = "B"
  /\ exp.step >= 1
  /\ exp.history[1].choice = "B"
  /\ exp.resets[1] = 0

\* The belief state a constructor leaves: nothing learned.
EmptyBelief(a) ==
  /\ \A r \in Range(a.restaurants) :
       /\ a.scores[r] = <<>>
       /\ a.averages[r] = Frac(0, 1)
       /\ a.counts[r] = [good |-> 0, bad |-> 0]
  /\ hasattr(a, "_initial_rounds_left") => a.initial_rounds_left = a.restaurants
  /\ a.last_choice = None
  /\ a.last_review_text = NoReview

\* C30: run_synchronized_experiment leaves the policy objects it was given
\* as they were at the call, and every run starts from the belief state of
\* a new object, also when the policy given had learned before.
C30_OriginalsAreNotMutated ==
  exp.pc \in {"next", "steps", "raised", "done"} =>
    /\ exp.algorithms = exp.given
    /\ (exp.pc = "steps" /\ exp.step = 0) => EmptyBelief(alg)

\* C30 witness: the run of a policy that had learned before has made a
\* step, and the instance it simulates has learned something else.
C30_Witness ==
  /\ exp.pc = "steps"
  /\ exp.step >= 1
  /\ exp.algorithms[exp.i] \in Learned
  /\ alg.cls = "ScoreEpsilonGreedy"
  /\ alg.scores # exp.algorithms[exp.i].scores

\* C31: a get_synchronized_review(r, t) that finds (t, r) in the cache
\* returns the cached row and changes nothing: no pool loses a row (so no
\* restaurant gets nearer to exhaustion), and the cache and the current
\* timestep stay as they were.
C31_CacheHitIsReadOnly ==
  [][LET key == <<last'.timestep, last'.restaurant>>
     IN (last'.op = "get_synchronized_review" /\ key \in DOMAIN timestep_cache) =>
          /\ last'.exc = "ok"
          /\ last'.review = timestep_cache[key]
          /\ shuffled_indices' = shuffled_indices
          /\ \A r \in restaurants :
               Remaining(shuffled_indices', r) = Remaining(shuffled_indices, r)
          /\ timestep_cache' = timestep_cache
          /\ current_timestep' = current_timestep
          /\ review_indices' = review_indices]_vars

\* C31 witness: a call for "A" has just been answered while no working list
\* exists at all (a miss leaves one behind) and both timesteps of "A" are
\* cached.
C31_Witness ==
  /\ last.op = "get_synchronized_review"
  /\ last.exc = "ok"
  /\ last.restaurant = "A"
  /\ shuffled_indices = EmptyDict
  /\ <<0, "A">> \in DOMAIN timestep_cache
  /\ <<1, "A">> \in DOMAIN timestep_cache

\* --------------------------------- the legacy run_simulation (src/simulation.py)
\* The score assigned when quantify could not be used.
NeutralScore == 50

\* algorithm.update(chosen_restaurant, score): the score is passed by
\* position, so it binds to the second parameter whatever its name.
legacy_update(a, chosen, score) == update(a, chosen, update_parameter(a.cls), score)

\* ReviewQuantifier.quantify of src/quantify.py: a score in 1..100, or what
\* it raises: RuntimeError when the requests are used up, ValueError for an
\* answer without the expected keys or that is no score in the range, and
\* the TypeError or AttributeError of an answer whose choices or content
\* are null, which its except clauses do not name.
legacy_quantify ==
  {[exc |-> "ok", score |-> x] : x \in Scores}
    \cup {[exc |-> e, score |-> 0]
          : e \in {"RuntimeError", "ValueError", "TypeError", "AttributeError"}}

\* The try statement of a step for the restaurant chosen.  Outcomes [exc,
\* where, score, shuffled, quantified, retried]: quantified tells how the
\* last quantify call ended ("no": none was made), retried whether the
\* IndexError handler ran.  The clause for RuntimeError and ValueError
\* guards the try body only: what the IndexError handler raises goes on.
legacy_try(sh, chosen) ==
  LET out(exc, where, score, shuffled, quantified, retried) ==
        [exc |-> exc, where |-> where, score |-> score, shuffled |-> shuffled,
         quantified |-> quantified, retried |-> retried]
  IN UNION {
       CASE g.exc = "ok" ->
              {IF q.exc = "ok"
               THEN out("ok", "none", q.score, g.shuffled, "ok", FALSE)
               ELSE IF Recovered(q.exc)
               THEN out("ok", "none", NeutralScore, g.shuffled, q.exc, FALSE)
               ELSE out(q.exc, "quantify", 0, g.shuffled, q.exc, FALSE)
               : q \in legacy_quantify}
         [] g.exc = "IndexError" ->
              LET r == reset(g.shuffled, chosen)
              IN IF r.exc # "ok"
                 THEN {out(r.exc, "reset", 0, r.shuffled, "no", TRUE)}
                 ELSE UNION {
                        IF h.exc # "ok"
                        THEN {out(h.exc, "fetch", 0, h.shuffled, "no", TRUE)}
                        ELSE {IF q.exc = "ok"
                              THEN out("ok", "none", q.score, h.shuffled, "ok", TRUE)
                              ELSE out(q.exc, "quantify", 0, h.shuffled, q.exc, TRUE)
                              : q \in legacy_quantify}
                        : h \in get_random_review(r.shuffled, chosen)}
         [] OTHER ->
              IF Recovered(g.exc)
              THEN {out("ok", "none", NeutralScore, g.shuffled, "no", FALSE)}
              ELSE {out(g.exc, "fetch", 0, g.shuffled, "no", FALSE)}
       : g \in get_random_review(sh, chosen)}

\* One iteration of the loop of the legacy run_simulation.  Outcomes [exc,
\* where, alg, shuffled, entry, fed]: entry is the record appended to the
\* history, fed how its score came about.
legacy_step(a, sh, step) ==
  UNION {
    IF sel.exc # "ok"
    THEN {[exc |-> sel.exc, where |-> "select", alg |-> sel.alg, shuffled |-> sh,
           entry |-> NoEntry, fed |-> [quantified |-> "no", retried |-> FALSE]]}
    ELSE UNION {
      IF t.exc # "ok"
      THEN {[exc |-> t.exc, where |-> t.where, alg |-> sel.alg,
             shuffled |-> t.shuffled, entry |-> NoEntry,
             fed |-> [quantified |-> t.quantified, retried |-> t.retried]]}
      ELSE {[exc |-> u.exc, where |-> IF u.exc = "ok" THEN "none" ELSE "update",
             alg |-> u.alg, shuffled |-> t.shuffled,
             entry |-> IF u.exc = "ok"
                       THEN [step |-> step, choice |-> sel.choice, score |-> t.score]
                       ELSE NoEntry,
             fed |-> [quantified |-> t.quantified, retried |-> t.retried]]
            : u \in legacy_update(sel.alg, sel.choice, t.score)}
      : t \in legacy_try(sh, sel.choice)}
    : sel \in select_restaurant(a)}

\* The policies of the legacy package (src/models).
LegacyPolicies ==
  {RandomChoice(<<"A", "B">>).alg,
   ScoreEpsilonGreedy(<<"B", "A">>, 0).alg}

\* The number of steps of the longest legacy experiment.
LegacyExpSteps == NumSteps - 1

\* The lists of policies the legacy functions are called with, as
\* [algorithms, ident]: one policy for run_simulation, one or two for
\* run_experiment (two objects, or one object twice).
LegacyCalls(caller) ==
  {[algorithms |-> <<p>>, ident |-> <<1>>] : p \in LegacyPolicies}
    \cup (IF caller = "run_experiment"
          THEN {[algorithms |-> <<p, q>>, ident |-> <<1, 2>>]
                : p, q \in LegacyPolicies}
                 \cup {[algorithms |-> <<p, p>>, ident |-> <<1, 1>>]
                       : p \in LegacyPolicies}
          ELSE {})

\* The legacy run_simulation or run_experiment is called with its policies,
\* a number of steps and a selector over "A" (several rows) and "B" (one
\* row), new or used.  all_results is the list run_experiment collects.
InitLegacy ==
  /\ restaurants = {"A", "B"}
  /\ review_indices = build_indices(SyncRecords, 1)
  /\ shuffled_indices \in {EmptyDict, With(EmptyDict, "B", <<>>)}
  /\ timestep_cache = EmptyDict
  /\ current_timestep = 0
  /\ last = NoCall
  /\ epoch = EmptyDict
  /\ resolved = EmptyDict
  /\ IdlePolicy
  /\ \E caller \in {"run_simulation", "run_experiment"}, n \in 0..NumSteps :
       \E c \in LegacyCalls(caller) :
         /\ caller = "run_experiment" => n <= LegacyExpSteps
         /\ exp = [pc |-> "legacy_start", caller |-> caller,
                algorithms |-> c.algorithms, ident |-> c.ident, i |-> 1,
                num_steps |-> n, step |-> 0, history |-> <<>>, trace |-> <<>>,
                all_results |-> <<>>, exc |-> "ok", where |-> "none",
                failed |-> [quantified |-> "no", retried |-> FALSE]]

\* run_simulation is entered for the policy object at position i, in the
\* state it is in: history = [] and review_selector.reset_all().
LegacyStart ==
  /\ exp.pc = "legacy_start"
  /\ exp.i <= Len(exp.algorithms)
  /\ alg' = exp.algorithms[exp.i]
  /\ shuffled_indices' = selector_reset_all(shuffled_indices)
  /\ exp' = [exp EXCEPT !.pc = "legacy_loop", !.step = 0, !.history = <<>>,
                        !.trace = <<>>]
  /\ UNCHANGED <<restaurants, review_indices, timestep_cache, current_timestep,
                 last, epoch, resolved, selects, lastSel, passed>>

\* One iteration of the loop, on the caller's object; an exception ends
\* the call.
LegacyStep ==
  /\ exp.pc = "legacy_loop"
  /\ exp.step < exp.num_steps
  /\ \E o \in legacy_step(alg, shuffled_indices, exp.step) :
       /\ alg' = o.alg
       /\ shuffled_indices' = o.shuffled
       /\ LET objects == Mutated(exp.algorithms, exp.ident, exp.i, o.alg)
          IN exp' = IF o.exc = "ok"
                    THEN [exp EXCEPT !.step = @ + 1, !.history = Append(@, o.entry),
                                     !.trace = Append(@, o.fed),
                                     !.algorithms = objects]
                    ELSE [exp EXCEPT !.pc = "legacy_raised", !.exc = o.exc,
                                     !.where = o.where, !.failed = o.fed,
                                     !.algorithms = objects]
  /\ UNCHANGED <<restaurants, review_indices, timestep_cache, current_timestep,
                 last, epoch, resolved, selects, lastSel, passed>>

\* return pd.DataFrame(history)
LegacyReturn ==
  /\ exp.pc = "legacy_loop"
  /\ exp.step = exp.num_steps
  /\ exp' = [exp EXCEPT !.pc = "legacy_returned"]
  /\ UNCHANGED <<selectorVars, last, epoch, resolved, policyVars>>

\* run_experiment takes the frame run_simulation returned: it is tagged
\* with the class's name and joins the results; then the next policy.
LegacyExpEndRun ==
  /\ exp.pc = "legacy_returned"
  /\ exp.caller = "run_experiment"
  /\ alg' = NoPolicy
  /\ exp' = [exp EXCEPT !.pc = "legacy_start", !.i = @ + 1,
                        !.all_results =
                          Append(@, [algorithm |-> class_name(exp.algorithms[exp.i]),
                                     history |-> exp.history])]
  /\ UNCHANGED <<selectorVars, last, epoch, resolved, selects, lastSel, passed>>

\* return pd.concat(all_results, ignore_index=True)
LegacyExpReturn ==
  /\ exp.pc = "legacy_start"
  /\ exp.caller = "run_experiment"
  /\ exp.i > Len(exp.algorithms)
  /\ exp' = [exp EXCEPT !.pc = "legacy_exp_returned"]
  /\ UNCHANGED <<selectorVars, last, epoch, resolved, policyVars>>

NextLegacy ==
  LegacyStart \/ LegacyStep \/ LegacyReturn \/ LegacyExpEndRun \/ LegacyExpReturn

SpecLegacy == InitLegacy /\ [][NextLegacy]_vars

\* C32: in the legacy run_simulation a quantify that raises RuntimeError or
\* ValueError never ends the run: the step gets the score 50 and is
\* recorded, also when the quantify call is the one made after the reset
\* and second get_random_review that follow an exhausted pool.
C32_LegacyQuantifyFailureIsNeutral ==
  exp.pc \in {"legacy_loop", "legacy_returned", "legacy_raised"} =>
    /\ (exp.pc = "legacy_raised" /\ exp.where = "quantify") => ~Recovered(exp.exc)
    /\ Len(exp.trace) = Len(exp.history)
    /\ \A i \in DOMAIN exp.trace :
         Recovered(exp.trace[i].quantified) => exp.history[i].score = NeutralScore

\* ------------------------------------ the LLM client (llm_mad/llm/base.py)
\* _MAX_RETRIES: the requests made for one model at most.
MAX_RETRIES == 5

\* The longest list of models a client is built with, and the longest
\* content of an answer.
MaxModels == 2
MaxText == 1

\* The texts of up to n characters, a character being a blank or a letter.
TextsUpTo(n) == UNION {[1..k -> {" ", "x"}] : k \in 0..n}

\* str.strip(): the text without its leading and trailing blanks.
RECURSIVE strip(_)
strip(t) ==
  IF t = <<>> THEN t
  ELSE IF Head(t) = " " THEN strip(Tail(t))
  ELSE IF t[Len(t)] = " " THEN strip(SubSeq(t, 1, Len(t) - 1))
  ELSE t

\* What requests.post and the reading of its response can come to:
\*   content    status below 400, a JSON body with a text at
\*              ["choices"][0]["message"]["content"]
\*   bad_shape  status below 400, a JSON body without that path
\*   no_text    status below 400, that path holds null or a number
\*   not_json   status below 400, response.json() raises requests'
\*              JSONDecodeError, a RequestException
\*   429, 404, 500 (any other status from 400 on)
\*   network    requests.post raises a RequestException
Answer(kind, text) == [kind |-> kind, text |-> text]

Responses ==
  {Answer("content", t) : t \in TextsUpTo(MaxText)}
    \cup {Answer(k, <<>>) : k \in {"bad_shape", "no_text", "not_json", "429", "404",
                                   "500", "network"}}

NoAnswer == Answer("none", <<>>)

\* response_json["choices"][0]["message"]["content"].strip() in its try:
\* KeyError, IndexError and TypeError become RuntimeError, the
\* AttributeError of a content without strip is not caught.
read_content(resp) ==
  CASE resp.kind = "content" -> [exc |-> "ok", content |-> strip(resp.text)]
    [] resp.kind = "bad_shape" -> [exc |-> "RuntimeError", content |-> <<>>]
    [] resp.kind = "no_text" -> [exc |-> "AttributeError", content |-> <<>>]

\* One iteration of the retry loop, attempt being its number from 0: what
\* the iteration ends in (return, raise, continue: the next iteration,
\* break: the next model), with the value returned or the exception, the
\* new last_error and whether backoff_time was raised.
call_api_attempt(resp, attempt) ==
  LET out(ends, exc, content, last_error, backoff) ==
        [ends |-> ends, exc |-> exc, content |-> content,
         last_error |-> last_error, backoff |-> backoff]
  IN CASE resp.kind \in {"content", "bad_shape", "no_text"} ->
            LET c == read_content(resp)
            IN IF c.exc = "ok" THEN out("return", "ok", c.content, "same", FALSE)
               ELSE out("raise", c.exc, <<>>, "same", FALSE)
       [] resp.kind = "429" -> out("continue", "ok", <<>>, "status", TRUE)
       [] resp.kind = "404" -> out("break", "ok", <<>>, "status", FALSE)
       [] resp.kind = "500" -> out("raise", "RuntimeError", <<>>, "status", FALSE)
       [] resp.kind \in {"not_json", "network"} ->
            IF attempt = MAX_RETRIES - 1
            THEN out("break", "ok", <<>>, "network", FALSE)
            ELSE out("continue", "ok", <<>>, "network", FALSE)

\* A client is built with a model or a list of models and _call_api is
\* called: exp holds the position in the two loops, the requests sent for
\* each model and how the call ended (immediate: by a raise from inside
\* the retry loop).
InitApi ==
  /\ IdleSelector
  /\ IdlePolicy
  /\ \E ms \in UNION {[1..k -> {"GEMINI_FLASH", "GPT_4O"}] : k \in 0..MaxModels} :
       exp = [pc |-> "api_start", models |-> ms, m |-> 0, attempt |-> 0,
              sent |-> [k \in DOMAIN ms |-> 0], backoffs |-> 0,
              last_error |-> "none", answer |-> NoAnswer, result |-> <<>>,
              exc |-> "ok", immediate |-> FALSE]

\* The record after the retry loop of model exp.m is over: the next model,
\* or the RuntimeError after the last one.
next_model(e) ==
  IF e.m < Len(e.models)
  THEN [e EXCEPT !.m = @ + 1, !.attempt = 0, !.backoffs = 0]
  ELSE [e EXCEPT !.pc = "api_raised", !.exc = "RuntimeError"]

\* last_error = "No models were provided to attempt." and the entry into
\* the loop over the models.
ApiStart ==
  /\ exp.pc = "api_start"
  /\ exp' = next_model([exp EXCEPT !.pc = "api_loop", !.last_error = "no models"])
  /\ UNCHANGED <<selectorVars, last, epoch, resolved, policyVars>>

\* One request and the handling of what came back.
ApiRequest(resp) ==
  /\ exp.pc = "api_loop"
  /\ LET o == call_api_attempt(resp, exp.attempt)
         e == [exp EXCEPT !.sent[exp.m] = @ + 1, !.answer = resp,
                          !.last_error = IF o.last_error = "same" THEN @
                                         ELSE o.last_error,
                          !.backoffs = IF o.backoff THEN @ + 1 ELSE @]
     IN exp' = CASE o.ends = "return" ->
                      [e EXCEPT !.pc = "api_returned", !.result = o.content]
                 [] o.ends = "raise" ->
                      [e EXCEPT !.pc = "api_raised", !.exc = o.exc,
                                !.immediate = TRUE]
                 [] o.ends = "continue" ->
                      IF exp.attempt + 1 < MAX_RETRIES
                      THEN [e EXCEPT !.attempt = @ + 1]
                      ELSE next_model(e)
                 [] o.ends = "break" -> next_model(e)
  /\ UNCHANGED <<selectorVars, last, epoch, resolved, policyVars>>

NextApi == ApiStart \/ \E resp \in Responses : ApiRequest(resp)

SpecApi == InitApi /\ [][NextApi]_vars

\* C33: _call_api sends at most _MAX_RETRIES requests for each model, takes
\* the models in their order, returns only the content of an answer that
\* succeeded, and otherwise ends by raising RuntimeError, whatever comes
\* back; as every request moves it on, it ends within
\* _MAX_RETRIES * (number of models) requests.
C33_CallApiEndsInContentOrRuntimeError ==
  exp.pc \in {"api_loop", "api_returned", "api_raised"} =>
    /\ \A k \in DOMAIN exp.sent : exp.sent[k] <= MAX_RETRIES
    /\ \A k \in DOMAIN exp.sent :
         /\ k < exp.m => exp.sent[k] >= 1
         /\ k > exp.m => exp.sent[k] = 0
    /\ exp.pc = "api_loop" =>
         /\ exp.m \in DOMAIN exp.models
         /\ exp.attempt < MAX_RETRIES
         /\ exp.sent[exp.m] = exp.attempt
    /\ exp.pc = "api_returned" =>
         /\ exp.answer.kind = "content"
         /\ exp.result = strip(exp.answer.text)
    /\ exp.pc = "api_raised" =>
         /\ exp.exc = "RuntimeError"
         /\ ~exp.immediate => \A k \in DOMAIN exp.sent : exp.sent[k] >= 1

====
